---- MODULE Spec2Model ----
(***************************************************************************)
(* Model of the rogue2 game server: the tick loop (game/loop.rs), the      *)
(* game state (game/state.rs), the delta tracker and vision filter         *)
(* (game/sync.rs), chunk streaming (map/chunks.rs), the connection and     *)
(* message handlers (network/server.rs, network/messages.rs) and the       *)
(* combat, ability and progression functions (game/abilities.rs,           *)
(* game/progression.rs, game/character.rs).                                *)
(*                                                                         *)
(* Positions are f32 pixels in the source.  Here a position is an integer  *)
(* number of thirds of a pixel, so that one tick of movement at            *)
(* MOVEMENT_SPEED (200 px/s at 60 Hz = 10/3 px) is exact.  Velocities are  *)
(* integers in px/s.  Input vectors are integers in tenths.                *)
(***************************************************************************)
EXTENDS Integers, Sequences, FiniteSets, TLC

(***************************************************************************)
(* Bounds of the model.                                                    *)
(***************************************************************************)
MaxConns == 2
MaxJoins == 3
MaxTicks == 2
MaxInputs == 1
MaxCombatants == 2
MaxXpAwards == 2
MaxClockSteps == 1
MaxSends == 3
MaxSendJoins == 2
\* Entities spawned in a run whose joins carry their species and class
MaxJoinMsgSpawns == 2
\* PlayerInput messages logged, and entities spawned, in a run
\* that logs the inputs
MaxInputMsgs == 2
MaxInputJoins == 2
\* RequestChunks messages handled, and entities spawned, in a run with requests
MaxRequests == 2
MaxRequestJoins == 1
\* Entities spawned, and connections, in a run with monsters and items on the map
MaxSnapshotEntities == 3
MaxSnapshotConns == 1
\* Joins with a character, and connections, in a run over the spawn points
MaxCharacterJoins == 4
MaxCharacterConns == 1
\* Entities spawned, connections and calls of the AI functions in a run of
\* the monster AI
MaxAiEntities == 3
MaxAiConns == 1
MaxAiCalls == 1
MaxSpawnPoints == 2
MaxSpawnEntities == 4
MaxSpawnClockSteps == 3

(***************************************************************************)
(* Program constants.                                                      *)
(***************************************************************************)
TICK_RATE == 60
MOVEMENT_SPEED == 200
MAP_MIN == 0
MAP_MAX == 3200
VISION_RANGE_PIXELS == 640
\* CALL_RANGE (15.0 * 32.0) of call_for_help, in pixels
CALL_RANGE == 480
CHUNK_SIZE == 32
CHUNK_LOAD_RADIUS == 1
TILE_SIZE == 32
FALLBACK_SPAWN == 1600
REGULAR_RESPAWN_SECONDS == 300
BOSS_RESPAWN_HOURS == 24

\* Config::from_env().max_players in a server started with MAX_PLAYERS=1 in
\* its environment (config.rs); main.rs logs the value and nothing else
\* reads it
max_players == 1

\* n pixels in position units (thirds of a pixel).
Px(n) == 3 * n

(***************************************************************************)
(* Generic helpers.                                                        *)
(***************************************************************************)
Abs(n) == IF n < 0 THEN -n ELSE n

Range(s) == {s[i] : i \in 1..Len(s)}

Put(f, k, v) == [x \in DOMAIN f \cup {k} |-> IF x = k THEN v ELSE f[x]]

Drop(f, k) == [x \in DOMAIN f \ {k} |-> f[x]]

\* Rust's integer division truncates toward zero.
TruncDiv(a, b) == IF a >= 0 THEN a \div b ELSE -((-a) \div b)

\* f32::floor of a position, in whole pixels divided by d (x / d as f32).floor().
FloorDivPx(x, d) == x \div Px(d)

\* Integer square root (exact on the perfect squares the inputs produce).
ISqrt(n) == CHOOSE r \in 0..n : r * r <= n /\ (r + 1) * (r + 1) > n

\* f32::clamp
Clamp(v, lo, hi) == IF v < lo THEN lo ELSE IF v > hi THEN hi ELSE v

\* The coordinates of a set in a fixed order (the iteration order of a
\* HashSet is unspecified; no checked property depends on the order chosen).
RECURSIVE SeqOfSet(_)
SeqOfSet(S) ==
    IF S = {} THEN <<>>
    ELSE LET m == CHOOSE a \in S : \A b \in S :
                      a[2] < b[2] \/ (a[2] = b[2] /\ a[1] <= b[1])
         IN  <<m>> \o SeqOfSet(S \ {m})

(***************************************************************************)
(* Fixed-width unsigned integers.  A u32 is two 16-bit limbs and a u64 is  *)
(* four, least significant first.                                          *)
(***************************************************************************)
LimbBase == 256 * 256

U32_ZERO == <<0, 0>>

\* 2^32 - 2 as a u32
U32_MAX_LESS_ONE == <<LimbBase - 2, LimbBase - 1>>

\* wrapping_add(1)
RECURSIVE wrapping_inc(_)
wrapping_inc(l) ==
    IF l = <<>> THEN <<>>
    ELSE IF l[1] + 1 < LimbBase
         THEN <<l[1] + 1>> \o Tail(l)
         ELSE <<0>> \o wrapping_inc(Tail(l))

\* b.wrapping_sub(a) on u32
wrapping_sub32(b, a) ==
    LET borrow == IF b[1] < a[1] THEN 1 ELSE 0
    IN  << (b[1] - a[1]) % LimbBase, (b[2] - a[2] - borrow) % LimbBase >>

\* A u32 widened to a u64
widen(l) == l \o <<0, 0>>

RECURSIVE SumSeq(_)
SumSeq(s) == IF s = <<>> THEN 0 ELSE s[1] + SumSeq(Tail(s))

VARIABLES
    map,              \* MapData: width, height (tiles), spawn_points
    next_client_id,   \* GameServer.next_client_id
    clients,          \* keys of GameServer.clients
    clients_readers,  \* tasks holding clients.read() across an await
    clients_writer,   \* task holding clients.write() across an await, or 0
    state_lock,       \* "free", or "tick" while the tick holds game_state.write()
    conn,             \* per connection: position of its receive task
    join_entity,      \* per connection: the entity local of handle_player_join
    outbox,           \* per connection: messages sent on its mpsc channel, in order
    world,            \* hecs World: Entity -> components
    ent_meta,         \* hecs entity generations, by index
    ent_pending,      \* hecs free list of indices
    players,          \* GameState.players: connection id -> PlayerState
    tick_count,       \* GameState.tick_count
    delta_tracker,    \* GameState.delta_tracker
    delta_sequence,   \* GameState.delta_sequence
    next_spawn_index, \* GameState.next_spawn_index
    tick_pc,          \* position of the tick loop inside tick()
    changes,          \* the EntityChanges local of tick()
    chunk_map,        \* chunk runs: the MapData the ChunkSystem was built from
    chunk_position,   \* chunk runs: the player's Position
    chunk_loaded,     \* chunk runs: PlayerState.loaded_chunks
    chunk_needed,     \* chunk runs: the last result of get_chunks_for_position
    chunk_update,     \* chunk runs: the last ChunkUpdate returned
    chunk_pc,         \* chunk runs: "moved" or "updated", the last operation
    combat_world,     \* combat runs: the entities' components, by index
    now,              \* combat and spawn runs: the clock behind Instant::now(), in ms
    xp_awards,        \* combat runs: calls of award_xp so far
    overflow_checks,  \* combat runs: whether the build panics on overflow
    socket,           \* per connection: messages its send task wrote to the WebSocket
    spawn_points,     \* spawn runs: SpawnPointManager.spawn_points
    death_time,       \* spawn runs: per spawn point, when its monster last died
    manager_updates,  \* spawn runs: calls of SpawnPointManager::update so far, modulo 2
    join_msg,         \* per connection: the PlayerJoin its receive task last read
    combat_call,      \* combat runs: the last call of a combat function, with its result
    input_log,        \* per connection: the PlayerInput messages handled, in order
    request_log,      \* per connection: the RequestChunks messages handled, in order
    ai_call,          \* AI runs: the last call of an AI function and the number of calls
    xp_call           \* experience runs: the last call of xp_for_level or level_from_xp

serverVars == <<map, next_client_id, clients, clients_readers, clients_writer,
                state_lock, conn, join_entity, outbox, world, ent_meta,
                ent_pending, players, tick_count, delta_tracker,
                delta_sequence, next_spawn_index, tick_pc, changes>>

gameVars == <<world, ent_meta, ent_pending, players, tick_count, delta_tracker,
              delta_sequence, next_spawn_index, changes>>

chunkVars == <<chunk_map, chunk_position, chunk_loaded, chunk_needed,
               chunk_update, chunk_pc>>

combatVars == <<combat_world, now, xp_awards, overflow_checks>>

sendVars == <<socket>>

spawnVars == <<spawn_points, death_time, manager_updates>>

joinVars == <<join_msg>>

callVars == <<combat_call>>

inputVars == <<input_log>>

requestVars == <<request_log>>

aiVars == <<ai_call>>

xpVars == <<xp_call>>

\* The variables the server's handlers and the tick never touch
otherVars == <<chunkVars, combatVars, sendVars, spawnVars, joinVars, callVars,
               inputVars, requestVars,
                   aiVars, xpVars>>

\* The variables the chunk runs, the combat runs, the send tasks and the spawn
\* runs leave alone
nonChunkVars == <<serverVars, combatVars, sendVars, spawnVars, joinVars, callVars,
                  inputVars, requestVars,
                   aiVars, xpVars>>

nonCombatVars == <<serverVars, chunkVars, sendVars, spawnVars, joinVars, callVars,
                   inputVars, requestVars,
                   aiVars, xpVars>>

nonSendVars == <<serverVars, chunkVars, combatVars, spawnVars, joinVars, callVars,
                 inputVars, requestVars,
                   aiVars, xpVars>>

nonCallVars == <<serverVars, chunkVars, xp_awards, overflow_checks, sendVars,
                 spawnVars, joinVars, inputVars, requestVars,
                   aiVars, xpVars>>

nonSpawnVars == <<map, next_client_id, clients, clients_readers, clients_writer,
                  state_lock, conn, join_entity, outbox, players, tick_count,
                  delta_sequence, next_spawn_index, tick_pc, chunkVars,
                  combat_world, xp_awards, overflow_checks, sendVars, joinVars,
                  callVars, inputVars, requestVars,
                   aiVars, xpVars>>

vars == <<serverVars, otherVars>>

ConnIds == 1..MaxConns

NoEntity == [id |-> -1, gen |-> 0]

\* No combat function has been called
NoCall == [fn |-> "none", entity |-> 0, target |-> 0, ability |-> "none",
           result |-> "none"]

\* No PlayerJoin has been read on the connection
NoXpCall == [fn |-> "none", level |-> 0, xp |-> <<0, 0>>, panic |-> FALSE,
             value |-> <<0, 0>>]

NoAiCall == [n |-> 0, fn |-> "none", entity |-> NoEntity, attacker |-> NoEntity]

NoPlayerJoin == [species |-> "none", character_class |-> "none"]

(***************************************************************************)
(* Maps.  The static map file and the generator give any width, height and *)
(* spawn point list; these are the maps the model starts from.             *)
(***************************************************************************)
\* 100x100 tiles; the second spawn point is 640 px from the first and the
\* third 700 px; all are 4 px from the lower edge and the first is 4 px left
\* of the chunk boundary at x = 1024.
OverworldMap ==
    [width |-> 100, height |-> 100,
     spawn_points |-> << <<Px(1020), Px(3196)>>, <<Px(1660), Px(3196)>>,
                         <<Px(1720), Px(3196)>> >>]

\* A generated 100x100 map: the generator puts spawn points on tiles whose
\* coordinates are multiples of 20; these two are in the chunks (0, 0) and
\* (2, 2).
GeneratedMap ==
    [width |-> 100, height |-> 100,
     spawn_points |-> << <<Px(640), Px(640)>>, <<Px(2560), Px(2560)>> >>]

\* A map file whose second spawn point is 646 px from the first: out of the
\* vision range, and in it after two ticks of walking towards it.
BorderMap ==
    [width |-> 100, height |-> 100,
     spawn_points |-> << <<Px(1020), Px(3196)>>, <<Px(1666), Px(3196)>> >>]

\* A 32x32 map file without spawn points.
SmallMap == [width |-> 32, height |-> 32, spawn_points |-> <<>>]

\* PlayerInput.movement vectors (tenths): none, right at half deflection, down.
Movements == { <<0, 0>>, <<5, 0>>, <<0, 10>> }

\* PlayerInput: the sequence number and the movement vector (timestamp and
\* action are stored but never read)
PlayerInput_default == [sequence |-> 0, movement |-> <<0, 0>>]


(***************************************************************************)
(* hecs World: entity allocation.  An Entity is an index and a generation; *)
(* spawn reuses the most recently freed index, despawn bumps the           *)
(* generation of the index and pushes it on the free list.                 *)
(***************************************************************************)
AllocEntity(meta, pending) ==
    IF pending # <<>>
    THEN [id |-> pending[Len(pending)], gen |-> meta[pending[Len(pending)] + 1]]
    ELSE [id |-> Len(meta), gen |-> 1]

MetaAfterAlloc(meta, pending) ==
    IF pending # <<>> THEN meta ELSE Append(meta, 1)

PendingAfterAlloc(pending) ==
    IF pending # <<>> THEN SubSeq(pending, 1, Len(pending) - 1) ELSE pending

\* Mutant: the spawn index stays where it is
get_next_spawn_point_no_advance(m, idx) ==
    IF m.spawn_points = <<>>
    THEN [pos |-> <<Px(FALLBACK_SPAWN), Px(FALLBACK_SPAWN)>>, next |-> idx]
    ELSE [pos |-> m.spawn_points[idx + 1], next |-> idx]

\* Mutant: despawn leaves the generation of the index as it is
MetaAfterFree_same_generation(meta, e) == meta

MetaAfterFree(meta, e) == [meta EXCEPT ![e.id + 1] = @ + 1]

\* entity.to_bits().get() as u32: the low 32 bits of (generation << 32 | id)
to_bits(e) == [hi |-> e.gen, lo |-> e.id]

WireId(e) == to_bits(e).lo

\* Entities spawned so far (alive, plus one per generation bump).
SpawnCount ==
    Cardinality(DOMAIN world) + SumSeq([i \in 1..Len(ent_meta) |-> ent_meta[i] - 1])

(***************************************************************************)
(* DeltaTracker (game/sync.rs)                                             *)
(***************************************************************************)
DeltaTracker_new == [last_positions |-> <<>>, newly_spawned |-> {}, despawned |-> {}]

mark_spawned(tr, e) == [tr EXCEPT !.newly_spawned = @ \cup {e}]

mark_despawned(tr, e) ==
    [tr EXCEPT !.despawned = @ \cup {WireId(e)},
               !.last_positions = Drop(@, e)]

\* (current - last).abs() > 0.01 px, on either axis
position_changed(cur, last) ==
    \/ 100 * Abs(cur[1] - last[1]) > Px(1)
    \/ 100 * Abs(cur[2] - last[2]) > Px(1)

\* The updated set computed by DeltaTracker::update
tracker_updated(tr, w) ==
    {e \in DOMAIN w : /\ e \in DOMAIN tr.last_positions
                      /\ position_changed(w[e].pos, tr.last_positions[e])}

\* The EntityChanges returned by DeltaTracker::update
tracker_changes(tr, w) ==
    [spawned |-> tr.newly_spawned,
     updated |-> tracker_updated(tr, w),
     despawned |-> tr.despawned]

\* Mutant: the spawned and despawned sets are not drained
tracker_after_update_no_drain(tr, w) ==
    [tr EXCEPT !.last_positions = [e \in DOMAIN w |-> w[e].pos]]

\* The tracker after DeltaTracker::update: positions replaced, sets drained
tracker_after_update(tr, w) ==
    [last_positions |-> [e \in DOMAIN w |-> w[e].pos],
     newly_spawned |-> {},
     despawned |-> {}]

EntityChanges_empty == [spawned |-> {}, updated |-> {}, despawned |-> {}]

(***************************************************************************)
(* GameState (game/state.rs)                                               *)
(***************************************************************************)
get_next_spawn_point(m, idx) ==
    IF m.spawn_points = <<>>
    THEN [pos |-> <<Px(FALLBACK_SPAWN), Px(FALLBACK_SPAWN)>>, next |-> idx]
    ELSE [pos |-> m.spawn_points[idx + 1],
          next |-> (idx + 1) % Len(m.spawn_points)]

\* The components add_player attaches that the tick loop and the sync layer read.
PlayerBundle(c, pos) == [pos |-> pos, vel |-> <<0, 0>>, connection_id |-> c]

PlayerState_new(e) ==
    [entity |-> e, latest_input |-> PlayerInput_default, loaded_chunks |-> {}]

\* add_player: the tracker after the spawn
add_player_tracker(tr, e) == mark_spawned(tr, e)

get_player_entity(pl, c) == IF c \in DOMAIN pl THEN pl[c].entity ELSE NoEntity

\* Mutant: an input is stored only while the slot holds the default input
update_player_input_keep_first(pl, c, input) ==
    IF c \in DOMAIN pl /\ pl[c].latest_input = PlayerInput_default
    THEN [pl EXCEPT ![c].latest_input = input]
    ELSE pl

update_player_input(pl, c, input) ==
    IF c \in DOMAIN pl THEN [pl EXCEPT ![c].latest_input = input] ELSE pl

(***************************************************************************)
(* Chunk system (map/chunks.rs)                                            *)
(***************************************************************************)
world_to_chunk(x, y, tile_size) ==
    << TruncDiv(FloorDivPx(x, tile_size), CHUNK_SIZE),
       TruncDiv(FloorDivPx(y, tile_size), CHUNK_SIZE) >>

map_width_chunks(m) == (m.width + CHUNK_SIZE - 1) \div CHUNK_SIZE

map_height_chunks(m) == (m.height + CHUNK_SIZE - 1) \div CHUNK_SIZE

\* Keys of ChunkSystem.chunks as built by create_chunks
chunk_keys(m) ==
    {<<cx, cy>> : cx \in 0..(map_width_chunks(m) - 1),
                  cy \in 0..(map_height_chunks(m) - 1)}

get_chunk(m, cx, cy) == <<cx, cy>> \in chunk_keys(m)

\* The (dx, dy) pairs in the order of the two nested loops (dy outer, dx inner)
ChunkOffsets ==
    [i \in 1..((2 * CHUNK_LOAD_RADIUS + 1) * (2 * CHUNK_LOAD_RADIUS + 1)) |->
        << ((i - 1) % (2 * CHUNK_LOAD_RADIUS + 1)) - CHUNK_LOAD_RADIUS,
           ((i - 1) \div (2 * CHUNK_LOAD_RADIUS + 1)) - CHUNK_LOAD_RADIUS >>]

\* Mutant: the upper bound of the check is inclusive
chunk_in_bounds_inclusive(m, cx, cy) ==
    /\ cx >= 0 /\ cy >= 0
    /\ cx <= map_width_chunks(m)
    /\ cy <= map_height_chunks(m)

chunk_in_bounds(m, cx, cy) ==
    /\ cx >= 0 /\ cy >= 0
    /\ cx < map_width_chunks(m)
    /\ cy < map_height_chunks(m)

get_chunks_for_position(m, x, y) ==
    LET center == world_to_chunk(x, y, TILE_SIZE)
        cand == [i \in 1..Len(ChunkOffsets) |->
                    << center[1] + ChunkOffsets[i][1],
                       center[2] + ChunkOffsets[i][2] >>]
        Keep(p) == chunk_in_bounds(m, p[1], p[2])
    IN  SelectSeq(cand, Keep)

\* Mutant: every loaded chunk is unloaded, needed or not
calculate_chunk_update_unload_all(current_chunks, needed_chunks) ==
    [to_load |-> SeqOfSet(needed_chunks \ current_chunks),
     to_unload |-> SeqOfSet(current_chunks)]

calculate_chunk_update(current_chunks, needed_chunks) ==
    [to_load |-> SeqOfSet(needed_chunks \ current_chunks),
     to_unload |-> SeqOfSet(current_chunks \ needed_chunks)]

ChunkUpdate_default == [to_load |-> <<>>, to_unload |-> <<>>]

\* GameState::update_player_chunks: the needed set of a player
player_needed_set(m, w, pl, c) ==
    Range(get_chunks_for_position(m, w[pl[c].entity].pos[1], w[pl[c].entity].pos[2]))

\* GameState::update_player_chunks: the ChunkUpdate returned
update_player_chunks_result(m, w, pl, c) ==
    IF c \notin DOMAIN pl \/ pl[c].entity \notin DOMAIN w
    THEN ChunkUpdate_default
    ELSE calculate_chunk_update(pl[c].loaded_chunks, player_needed_set(m, w, pl, c))

\* GameState::update_player_chunks: the loaded set afterwards
update_player_chunks_loaded(m, w, pl, c) ==
    IF c \notin DOMAIN pl \/ pl[c].entity \notin DOMAIN w
    THEN IF c \in DOMAIN pl THEN pl[c].loaded_chunks ELSE {}
    ELSE player_needed_set(m, w, pl, c)

(***************************************************************************)
(* Tick phases (game/loop.rs)                                              *)
(***************************************************************************)
\* The velocity process_player_inputs derives from an input vector
input_velocity(input) ==
    LET mx == input.movement[1]
        my == input.movement[2]
        input_length == ISqrt(mx * mx + my * my)
    IN  IF input_length > 0
        THEN << (mx * MOVEMENT_SPEED) \div input_length,
                (my * MOVEMENT_SPEED) \div input_length >>
        ELSE <<0, 0>>

process_player_inputs(w, pl) ==
    [e \in DOMAIN w |->
        IF \E c \in DOMAIN pl : pl[c].entity = e
        THEN LET c == CHOOSE c \in DOMAIN pl : pl[c].entity = e
             IN  [w[e] EXCEPT !.vel = input_velocity(pl[c].latest_input)]
        ELSE w[e]]

\* v px/s over TICK_DURATION_SEC, in position units
tick_step(v) == Px(v) \div TICK_RATE

clamp_to_map(v) == Clamp(v, Px(MAP_MIN), Px(MAP_MAX))

update_movement(w) ==
    [e \in DOMAIN w |->
        IF "vel" \in DOMAIN w[e]
        THEN [w[e] EXCEPT !.pos =
                 << clamp_to_map(w[e].pos[1] + tick_step(w[e].vel[1])),
                    clamp_to_map(w[e].pos[2] + tick_step(w[e].vel[2])) >>]
        ELSE w[e]]

\* The ChunksLoaded / ChunksUnloaded messages GameLoop::update_player_chunks
\* sends for one ChunkUpdate
chunk_messages(m, update) ==
    LET Has(p) == get_chunk(m, p[1], p[2])
    IN  (IF update.to_load # <<>>
         THEN << [type |-> "ChunksLoaded", chunks |-> SelectSeq(update.to_load, Has)] >>
         ELSE <<>>)
        \o
        (IF update.to_unload # <<>>
         THEN << [type |-> "ChunksUnloaded", chunk_coords |-> update.to_unload] >>
         ELSE <<>>)

\* The messages of one tick as recorded in a client's queue: each with the
\* tick_count of the tick that sent it (the count is not part of the bytes)
sent_in_tick(messages, tick) ==
    [i \in 1..Len(messages) |-> messages[i] @@ [tick |-> tick]]

(***************************************************************************)
(* Snapshot and delta messages, vision filter (game/sync.rs)               *)
(***************************************************************************)
collect_entity_info(w, e) == [id |-> WireId(e), pos |-> w[e].pos, vel |-> w[e].vel]

\* collect_entity_info returns Some: the entity has a Position, a Velocity, a
\* Health and a Stats.  Players and monsters are spawned with all four, items
\* with the Position alone; the Velocity stands for the other two here.
has_entity_info(ent) == {"pos", "vel"} \subseteq DOMAIN ent

\* The infos collected for the entities of S: those collect_entity_info
\* returns Some for
entity_infos(w, S) ==
    {collect_entity_info(w, e) : e \in {x \in S \cap DOMAIN w : has_entity_info(w[x])}}

\* Mutant: the range test is strict
within_vision_strict(p, q) ==
    (p[1] - q[1]) * (p[1] - q[1]) + (p[2] - q[2]) * (p[2] - q[2])
        < Px(VISION_RANGE_PIXELS) * Px(VISION_RANGE_PIXELS)

\* sqrt(dx^2 + dy^2) <= VISION_RANGE_PIXELS, compared on the squares
within_vision(p, q) ==
    (p[1] - q[1]) * (p[1] - q[1]) + (p[2] - q[2]) * (p[2] - q[2])
        <= Px(VISION_RANGE_PIXELS) * Px(VISION_RANGE_PIXELS)

is_in_range(w, e, player_pos) ==
    IF e \in DOMAIN w THEN within_vision(w[e].pos, player_pos) ELSE FALSE

\* Mutant: despawned ids are filtered like the others (none has a position)
filter_changes_despawned_too(w, ch, player_pos) ==
    [spawned |-> {e \in ch.spawned : is_in_range(w, e, player_pos)},
     updated |-> {e \in ch.updated : is_in_range(w, e, player_pos)},
     despawned |-> {}]

filter_changes_by_vision(w, ch, player_pos) ==
    [spawned |-> {e \in ch.spawned : is_in_range(w, e, player_pos)},
     updated |-> {e \in ch.updated : is_in_range(w, e, player_pos)},
     despawned |-> ch.despawned]

build_delta_message(w, ch, sequence) ==
    [type |-> "GameStateDelta",
     sequence |-> sequence,
     entities_updated |-> entity_infos(w, ch.updated),
     entities_spawned |-> entity_infos(w, ch.spawned),
     entities_despawned |-> ch.despawned]

\* What broadcast_delta sends to one client: at most one delta
broadcast_delta_for(w, pl, ch, sequence, c) ==
    IF get_player_entity(pl, c) \notin DOMAIN w
    THEN <<>>
    ELSE LET filtered == filter_changes_by_vision(w, ch, w[pl[c].entity].pos)
         IN  IF /\ filtered.spawned = {}
                /\ filtered.updated = {}
                /\ filtered.despawned = {}
             THEN <<>>
             ELSE << build_delta_message(w, filtered, sequence) >>

build_snapshot_message(w, player_entity) ==
    LET player_pos == IF player_entity \in DOMAIN w
                      THEN w[player_entity].pos
                      ELSE <<Px(FALLBACK_SPAWN), Px(FALLBACK_SPAWN)>>
    IN  [type |-> "GameStateSnapshot",
         player_entity_id |-> WireId(player_entity),
         entities |-> entity_infos(w, {e \in DOMAIN w : within_vision(w[e].pos, player_pos)})]

\* Mutant: the sequence saturates at u32::MAX
saturating_delta_sequence(s) ==
    IF s = <<LimbBase - 1, LimbBase - 1>> THEN s ELSE wrapping_inc(s)

\* wrapping_add(1) on the u32 delta sequence
next_delta_sequence(s) == wrapping_inc(s)


(***************************************************************************)
(* Initial state: GameState::new(m) and GameServer::new, with the sequence *)
(* and tick counters at seq0 (0 after construction).                       *)
(***************************************************************************)

ServerInit(m, seq0) ==
    /\ map = m
    /\ next_client_id = 1
    /\ clients = {}
    /\ clients_readers = {}
    /\ clients_writer = 0
    /\ state_lock = "free"
    /\ conn = [c \in ConnIds |-> "none"]
    /\ join_entity = [c \in ConnIds |-> NoEntity]
    /\ outbox = [c \in ConnIds |-> <<>>]
    /\ socket = [c \in ConnIds |-> <<>>]
    /\ join_msg = [c \in ConnIds |-> NoPlayerJoin]
    /\ combat_call = NoCall
    /\ input_log = [c \in ConnIds |-> <<>>]
    /\ request_log = [c \in ConnIds |-> <<>>]
    /\ ai_call = NoAiCall
    /\ xp_call = NoXpCall
    /\ world = <<>>
    /\ ent_meta = <<>>
    /\ ent_pending = <<>>
    /\ players = <<>>
    /\ delta_sequence = seq0
    /\ tick_count = widen(seq0)
    /\ delta_tracker = DeltaTracker_new
    /\ next_spawn_index = 0
    /\ tick_pc = "idle"
    /\ changes = EntityChanges_empty

(***************************************************************************)
(* Lock acquisition (tokio RwLock), at the places the code awaits a lock.  *)
(***************************************************************************)
\* game_state.write().await in handle_player_join
join_state_write == state_lock = "free"

\* game_state.read().await in handle_player_join
join_state_read == state_lock = "free"

\* Mutant: the input handler writes without waiting for the lock
input_state_unlocked == TRUE

\* game_state.write().await in handle_player_input
input_state_write == state_lock = "free"

\* game_state.write().await in the receive task's cleanup
cleanup_state_write == state_lock = "free"

\* self.state.write().await in tick
tick_state_write == state_lock = "free"

\* clients.read().await
clients_read == clients_writer = 0

\* clients.write().await
clients_write == clients_writer = 0 /\ clients_readers = {}

(***************************************************************************)
(* Connection handling (network/server.rs)                                 *)
(***************************************************************************)
\* handle_connection: assign the client id and store the connection
Connect ==
    /\ next_client_id <= MaxConns
    /\ clients_write
    /\ clients' = clients \cup {next_client_id}
    /\ conn' = [conn EXCEPT ![next_client_id] = "open"]
    /\ next_client_id' = next_client_id + 1
    /\ UNCHANGED otherVars
    /\ UNCHANGED <<map, clients_readers, clients_writer, state_lock, join_entity,
                   outbox, tick_pc>>
    /\ UNCHANGED gameVars

\* receive task: the socket closes or errors; the client is removed from the map
\* under clients.write(), which stays held while the task awaits the game state
Disconnect(c) ==
    /\ conn[c] = "open"
    /\ clients_write
    /\ clients' = clients \ {c}
    /\ clients_writer' = c
    /\ conn' = [conn EXCEPT ![c] = "cleanup"]
    /\ UNCHANGED otherVars
    /\ UNCHANGED <<map, next_client_id, clients_readers, state_lock, join_entity,
                   outbox, tick_pc>>
    /\ UNCHANGED gameVars

\* receive task: state.remove_player(client_id), then both guards are dropped
RemovePlayer(c) ==
    /\ conn[c] = "cleanup"
    /\ cleanup_state_write
    /\ IF c \in DOMAIN players
       THEN LET e == players[c].entity
            IN  /\ players' = Drop(players, c)
                /\ delta_tracker' = mark_despawned(delta_tracker, e)
                /\ IF e \in DOMAIN world
                   THEN /\ world' = Drop(world, e)
                        /\ ent_meta' = MetaAfterFree(ent_meta, e)
                        /\ ent_pending' = Append(ent_pending, e.id)
                   ELSE UNCHANGED <<world, ent_meta, ent_pending>>
       ELSE UNCHANGED <<players, delta_tracker, world, ent_meta, ent_pending>>
    /\ clients_writer' = 0
    /\ conn' = [conn EXCEPT ![c] = "closed"]
    /\ UNCHANGED otherVars
    /\ UNCHANGED <<map, next_client_id, clients, clients_readers, state_lock,
                   join_entity, outbox, tick_pc, tick_count, delta_sequence,
                   next_spawn_index, changes>>

(***************************************************************************)
(* Message handlers (network/messages.rs)                                  *)
(***************************************************************************)
\* handle_player_join, first part: get_next_spawn_point and add_player under
\* game_state.write()
PlayerJoin(c) ==
    /\ conn[c] = "open"
    /\ SpawnCount < MaxJoins
    /\ join_state_write
    /\ LET sp == get_next_spawn_point(map, next_spawn_index)
           e == AllocEntity(ent_meta, ent_pending)
       IN  /\ next_spawn_index' = sp.next
           /\ world' = Put(world, e, PlayerBundle(c, sp.pos))
           /\ ent_meta' = MetaAfterAlloc(ent_meta, ent_pending)
           /\ ent_pending' = PendingAfterAlloc(ent_pending)
           /\ players' = Put(players, c, PlayerState_new(e))
           /\ delta_tracker' = add_player_tracker(delta_tracker, e)
           /\ join_entity' = [join_entity EXCEPT ![c] = e]
    /\ conn' = [conn EXCEPT ![c] = "join_clients"]
    /\ UNCHANGED otherVars
    /\ UNCHANGED <<map, next_client_id, clients, clients_readers, clients_writer,
                   state_lock, outbox, tick_pc, tick_count, delta_sequence, changes>>

\* handle_player_join, second part: clients.read().await
JoinClientsRead(c) ==
    /\ conn[c] = "join_clients"
    /\ clients_read
    /\ clients_readers' = clients_readers \cup {c}
    /\ conn' = [conn EXCEPT ![c] = "join_snapshot"]
    /\ UNCHANGED otherVars
    /\ UNCHANGED <<map, next_client_id, clients, clients_writer, state_lock,
                   join_entity, outbox, tick_pc>>
    /\ UNCHANGED gameVars

\* handle_player_join, third part: game_state.read().await and
\* send_snapshot_to_client, then both guards are dropped
JoinSnapshot(c) ==
    /\ conn[c] = "join_snapshot"
    /\ join_state_read
    /\ outbox' = [outbox EXCEPT ![c] =
                    IF c \in clients
                    THEN Append(@, build_snapshot_message(world, join_entity[c]))
                    ELSE @]
    /\ clients_readers' = clients_readers \ {c}
    /\ join_entity' = [join_entity EXCEPT ![c] = NoEntity]
    /\ conn' = [conn EXCEPT ![c] = "open"]
    /\ UNCHANGED otherVars
    /\ UNCHANGED <<map, next_client_id, clients, clients_writer, state_lock, tick_pc>>
    /\ UNCHANGED gameVars

\* handle_player_input: update_player_input under game_state.write().  The
\* client numbers its inputs; an input on a connection without a player
\* changes nothing and is left out.
PlayerInputMsg(c, movement) ==
    /\ conn[c] = "open"
    /\ c \in DOMAIN players
    /\ players[c].latest_input.sequence < MaxInputs
    /\ input_state_write
    /\ players' = update_player_input(players, c,
                      [sequence |-> players[c].latest_input.sequence + 1,
                       movement |-> movement])
    /\ UNCHANGED otherVars
    /\ UNCHANGED <<map, next_client_id, clients, clients_readers, clients_writer,
                   state_lock, conn, join_entity, outbox, tick_pc, world, ent_meta,
                   ent_pending, tick_count, delta_tracker, delta_sequence,
                   next_spawn_index, changes>>

(***************************************************************************)
(* The tick (game/loop.rs, GameLoop::tick)                                 *)
(***************************************************************************)
\* Ticks run since the start (the bound on a run), for a tick count that
\* started at 0 or at 2^32 - 2
TicksDone ==
    IF tick_count[3] = 1 THEN tick_count[1] + 2
    ELSE IF tick_count[2] = LimbBase - 1 THEN tick_count[1] - (LimbBase - 2)
    ELSE tick_count[1]

\* state.write().await; tick_count += 1; process_player_inputs; update_movement
TickBegin ==
    /\ tick_pc = "idle"
    /\ TicksDone < MaxTicks
    /\ tick_state_write
    /\ state_lock' = "tick"
    /\ tick_count' = wrapping_inc(tick_count)
    /\ world' = update_movement(process_player_inputs(world, players))
    /\ tick_pc' = "chunks"
    /\ UNCHANGED otherVars
    /\ UNCHANGED <<map, next_client_id, clients, clients_readers, clients_writer,
                   conn, join_entity, outbox, ent_meta, ent_pending, players,
                   delta_tracker, delta_sequence, next_spawn_index, changes>>

\* update_player_chunks under clients.read(); then DeltaTracker::update and
\* delta_sequence.wrapping_add(1)
TickChunks ==
    /\ tick_pc = "chunks"
    /\ clients_read
    /\ players' = [c \in DOMAIN players |->
                     [players[c] EXCEPT !.loaded_chunks =
                         update_player_chunks_loaded(map, world, players, c)]]
    /\ outbox' = [c \in ConnIds |->
                    IF c \in DOMAIN players /\ c \in clients
                    THEN outbox[c] \o sent_in_tick(chunk_messages(map,
                             update_player_chunks_result(map, world, players, c)),
                             tick_count)
                    ELSE outbox[c]]
    /\ changes' = tracker_changes(delta_tracker, world)
    /\ delta_tracker' = tracker_after_update(delta_tracker, world)
    /\ delta_sequence' = next_delta_sequence(delta_sequence)
    /\ tick_pc' = "broadcast"
    /\ UNCHANGED otherVars
    /\ UNCHANGED <<map, next_client_id, clients, clients_readers, clients_writer,
                   state_lock, conn, join_entity, world, ent_meta, ent_pending,
                   tick_count, next_spawn_index>>

\* broadcast_delta under clients.read(); then the guards are dropped
TickBroadcast ==
    /\ tick_pc = "broadcast"
    /\ clients_read
    /\ outbox' = [c \in ConnIds |->
                    IF c \in clients
                    THEN outbox[c] \o sent_in_tick(
                             broadcast_delta_for(world, players, changes,
                                                 delta_sequence, c), tick_count)
                    ELSE outbox[c]]
    /\ changes' = EntityChanges_empty
    /\ state_lock' = "free"
    /\ tick_pc' = "idle"
    /\ UNCHANGED otherVars
    /\ UNCHANGED <<map, next_client_id, clients, clients_readers, clients_writer,
                   conn, join_entity, world, ent_meta, ent_pending, players,
                   tick_count, delta_tracker, delta_sequence, next_spawn_index>>

\* PlayerInput messages handled so far, on all connections
InputCount == SumSeq([c \in ConnIds |-> Len(input_log[c])])

\* handle_player_input for a PlayerInput read on the connection, with or
\* without a player on it; the log keeps the movement and the entity the
\* connection's player had when the input was handled
ReceivePlayerInput(c, movement) ==
    /\ conn[c] = "open"
    /\ InputCount < MaxInputMsgs
    /\ input_state_write
    /\ players' = update_player_input(players, c,
                      [sequence |-> Len(input_log[c]) + 1,
                       movement |-> movement])
    /\ input_log' = [input_log EXCEPT ![c] =
                        Append(@, [movement |-> movement,
                                   entity |-> get_player_entity(players, c)])]
    /\ UNCHANGED <<chunkVars, combatVars, sendVars, spawnVars, joinVars, callVars,
                   requestVars,
                   aiVars, xpVars>>
    /\ UNCHANGED <<map, next_client_id, clients, clients_readers, clients_writer,
                   state_lock, conn, join_entity, outbox, tick_pc, world, ent_meta,
                   ent_pending, tick_count, delta_tracker, delta_sequence,
                   next_spawn_index, changes>>

\* A RequestChunks message: its chunk_coords vector, or none
NoCoords == [has_coords |-> FALSE, chunk_coords |-> <<>>]

Coords(chunk_coords) == [has_coords |-> TRUE, chunk_coords |-> chunk_coords]

\* The requests drawn: no vector, an empty one, a chunk of the map, one past
\* each edge with the last chunk of the map between them, and one chunk twice
RequestInputs ==
    { NoCoords,
      Coords(<<>>),
      Coords(<< <<0, 0>> >>),
      Coords(<< <<-1, 0>>, <<map_width_chunks(map) - 1, map_height_chunks(map) - 1>>,
                <<map_width_chunks(map), 0>> >>),
      Coords(<< <<1, 1>>, <<1, 1>> >>) }

\* Mutant: every requested coordinate is answered, in the index or not
request_chunks_reply_unfiltered(m, chunk_coords) ==
    [type |-> "ChunksLoaded", chunks |-> chunk_coords]

\* The ChunksLoaded handle_request_chunks builds: the requested chunks that
\* get_chunk finds, in the order of the request
request_chunks_reply(m, chunk_coords) ==
    LET Has(p) == get_chunk(m, p[1], p[2])
    IN  [type |-> "ChunksLoaded", chunks |-> SelectSeq(chunk_coords, Has)]

\* RequestChunks messages handled so far, on all connections
RequestCount == SumSeq([c \in ConnIds |-> Len(request_log[c])])

\* handle_request_chunks: without a coordinate vector it returns at once;
\* otherwise it takes game_state.read() and clients.read() and sends the reply
RequestChunksMsg(c, request) ==
    /\ conn[c] = "open"
    /\ RequestCount < MaxRequests
    /\ request_log' = [request_log EXCEPT ![c] = Append(@, request)]
    /\ IF ~request.has_coords
       THEN UNCHANGED outbox
       ELSE /\ join_state_read
            /\ clients_read
            /\ outbox' = [outbox EXCEPT ![c] =
                            IF c \in clients
                            THEN Append(@, request_chunks_reply(map,
                                               request.chunk_coords))
                            ELSE @]
    /\ UNCHANGED <<chunkVars, combatVars, sendVars, spawnVars, joinVars, callVars,
                   inputVars, aiVars, xpVars>>
    /\ UNCHANGED <<map, next_client_id, clients, clients_readers, clients_writer,
                   state_lock, conn, join_entity, tick_pc>>
    /\ UNCHANGED gameVars

(***************************************************************************)
(* A PlayerJoin as it arrives (network/messages.rs): the message carries   *)
(* the wire values of the species and the class, which the handler         *)
(* converts before it takes any lock.  A wire value is the name of one of  *)
(* the constants of the generated enum or "Unlisted", a value that is none *)
(* of them.                                                                *)
(***************************************************************************)
\* ecs::components::Species and CharacterClass
Species == {"Human", "Elf", "Dwarf", "Halfling", "HalfOrc", "Gnome"}

CharacterClass == {"Fighter", "Rogue", "Cleric", "Wizard", "Ranger", "Barbarian"}

\* The wire values the joins of the model carry
JoinSpeciesInputs == {"Gnome", "Unlisted"}

JoinClassInputs == {"Barbarian", "Unlisted"}

\* The `_` arm of the two matches: warn! and return
Rejected == "rejected"

\* Mutant: the `_` arm of the match takes an unlisted wire value for a Human
species_from_wire_any(species_value) ==
    IF species_value \in Species THEN species_value ELSE "Human"

\* match species_value { network::Species::Human => Species::Human, ... }
species_from_wire(species_value) ==
    CASE species_value = "Human" -> "Human"
      [] species_value = "Elf" -> "Elf"
      [] species_value = "Dwarf" -> "Dwarf"
      [] species_value = "Halfling" -> "Halfling"
      [] species_value = "HalfOrc" -> "HalfOrc"
      [] species_value = "Gnome" -> "Gnome"
      [] OTHER -> Rejected

\* match class_value { network::CharacterClass::Fighter => ..., ... }
class_from_wire(class_value) ==
    CASE class_value = "Fighter" -> "Fighter"
      [] class_value = "Rogue" -> "Rogue"
      [] class_value = "Cleric" -> "Cleric"
      [] class_value = "Wizard" -> "Wizard"
      [] class_value = "Ranger" -> "Ranger"
      [] class_value = "Barbarian" -> "Barbarian"
      [] OTHER -> Rejected

(***************************************************************************)
(* The send task of a connection (network/server.rs): it takes the next    *)
(* message of the channel and writes it to the WebSocket.  The channel     *)
(* keeps what was sent on it after the client has left the map, so the     *)
(* task drains it then too.  Writes to the socket succeed here.            *)
(***************************************************************************)
\* Messages sent on the channel of c that its send task has not yet received
pending(c) == SubSeq(outbox[c], Len(socket[c]) + 1, Len(outbox[c]))

\* Mutant: the task takes the newest message of the channel
rx_recv_newest(queue) == queue[Len(queue)]

\* rx.recv(): the oldest message of the channel
rx_recv(queue) == Head(queue)

\* Messages written to the sockets so far (the bound on a run)
SendCount == SumSeq([c \in ConnIds |-> Len(socket[c])])

\* send_task: one turn of its loop
SendTask(c) ==
    /\ pending(c) # <<>>
    /\ SendCount < MaxSends
    /\ socket' = [socket EXCEPT ![c] = Append(@, rx_recv(pending(c)))]
    /\ UNCHANGED nonSendVars

Next ==
    \/ Connect
    \/ \E c \in ConnIds : Disconnect(c)
    \/ \E c \in ConnIds : RemovePlayer(c)
    \/ \E c \in ConnIds : PlayerJoin(c)
    \/ \E c \in ConnIds : JoinClientsRead(c)
    \/ \E c \in ConnIds : JoinSnapshot(c)
    \/ \E c \in ConnIds : \E mv \in Movements : PlayerInputMsg(c, mv)
    \/ TickBegin
    \/ TickChunks
    \/ TickBroadcast

(***************************************************************************)
(* The chunk functions on their own: one player on a map, moved about and  *)
(* run through GameState::update_player_chunks.                            *)
(***************************************************************************)
\* Map sizes in tiles (width, height)
ChunkMapSizes == { <<32, 32>>, <<64, 48>>, <<100, 100>>, <<33, 1>> }

\* Coordinates around the chunk boundaries, in position units
ChunkProbes ==
    {0, Px(1024) - 1, Px(1024), Px(2048) - 1, Px(2048), Px(3072), Px(3200)}

\* The probed positions inside the map m
PositionsInside(m) ==
    {p \in ChunkProbes \X ChunkProbes :
        p[1] <= Px(m.width * TILE_SIZE) /\ p[2] <= Px(m.height * TILE_SIZE)}

ChunkPlayer == 1

ChunkEntity == [id |-> 0, gen |-> 1]

\* The world and the players map of the chunk runs
ChunkWorld == [e \in {ChunkEntity} |-> PlayerBundle(ChunkPlayer, chunk_position)]

ChunkPlayers ==
    [c \in {ChunkPlayer} |->
        [PlayerState_new(ChunkEntity) EXCEPT !.loaded_chunks = chunk_loaded]]

ChunkInit ==
    /\ chunk_map \in {[width |-> s[1], height |-> s[2], spawn_points |-> <<>>] :
                        s \in ChunkMapSizes}
    /\ chunk_position \in PositionsInside(chunk_map)
    /\ chunk_loaded = PlayerState_new(ChunkEntity).loaded_chunks
    /\ chunk_needed = <<>>
    /\ chunk_update = ChunkUpdate_default
    /\ chunk_pc = "moved"

ChunkParked ==
    /\ chunk_map = SmallMap
    /\ chunk_position = <<0, 0>>
    /\ chunk_loaded = {}
    /\ chunk_needed = <<>>
    /\ chunk_update = ChunkUpdate_default
    /\ chunk_pc = "moved"

\* The player's position changes between two ticks
MovePlayer ==
    /\ \E p \in PositionsInside(chunk_map) :
          /\ p # chunk_position
          /\ chunk_position' = p
    /\ chunk_pc' = "moved"
    /\ UNCHANGED <<chunk_map, chunk_loaded, chunk_needed, chunk_update>>

\* GameState::update_player_chunks(connection_id)
UpdatePlayerChunks ==
    /\ chunk_needed' = get_chunks_for_position(chunk_map, chunk_position[1],
                                                chunk_position[2])
    /\ chunk_update' = update_player_chunks_result(chunk_map, ChunkWorld,
                                                   ChunkPlayers, ChunkPlayer)
    /\ chunk_loaded' = update_player_chunks_loaded(chunk_map, ChunkWorld,
                                                    ChunkPlayers, ChunkPlayer)
    /\ chunk_pc' = "updated"
    /\ UNCHANGED <<chunk_map, chunk_position>>

(***************************************************************************)
(* Characters (game/character.rs)                                          *)
(***************************************************************************)
ClassAbility ==
    {"SecondWind", "SneakAttack", "HealingWord", "MagicMissile", "HuntersMark", "Rage"}

\* CharacterBuilder::calculate_stats, the str and int stats
calculate_stats(species, class) ==
    [str |-> 10
             + (CASE species = "Human" -> 1
                  [] species = "Dwarf" -> 1
                  [] species = "Halfling" -> -1
                  [] species = "HalfOrc" -> 2
                  [] species = "Gnome" -> -1
                  [] OTHER -> 0)
             + (CASE class = "Fighter" -> 2
                  [] class = "Barbarian" -> 2
                  [] OTHER -> 0),
     int |-> 10
             + (CASE species = "Human" -> 1
                  [] species = "Elf" -> 1
                  [] species = "HalfOrc" -> -1
                  [] species = "Gnome" -> 2
                  [] OTHER -> 0)
             + (CASE class = "Wizard" -> 2
                  [] OTHER -> 0)]

calculate_base_hp(species) ==
    CASE species = "Human" -> 10
      [] species = "Elf" -> 8
      [] species = "Dwarf" -> 12
      [] species = "Halfling" -> 8
      [] species = "HalfOrc" -> 12
      [] species = "Gnome" -> 8

class_hp_bonus(class) ==
    CASE class = "Fighter" -> 2
      [] class = "Rogue" -> 0
      [] class = "Cleric" -> 1
      [] class = "Wizard" -> -2
      [] class = "Ranger" -> 1
      [] class = "Barbarian" -> 4

class_ac(class) ==
    CASE class = "Fighter" -> 16
      [] class = "Rogue" -> 14
      [] class = "Cleric" -> 15
      [] class = "Wizard" -> 11
      [] class = "Ranger" -> 14
      [] class = "Barbarian" -> 13

class_attack_cooldown(class) ==
    CASE class = "Fighter" -> 800
      [] class = "Rogue" -> 700
      [] class = "Cleric" -> 1000
      [] class = "Wizard" -> 1200
      [] class = "Ranger" -> 1000
      [] class = "Barbarian" -> 1100

\* CharacterBuilder::build
build(species, class) ==
    [species |-> species,
     class |-> class,
     level |-> 1,
     experience |-> U32_ZERO,
     stats |-> calculate_stats(species, class),
     max_hp |-> calculate_base_hp(species) + class_hp_bonus(class),
     ac |-> class_ac(class),
     attack_cooldown_ms |-> class_attack_cooldown(class)]

has_damage_resistance(species) == species = "Dwarf"

apply_damage_resistance(damage, species) ==
    IF has_damage_resistance(species)
    THEN (IF damage - 1 > 1 THEN damage - 1 ELSE 1)
    ELSE damage

\* ClassAbility::cooldown_ms
cooldown_ms(ability) ==
    CASE ability = "SecondWind" -> 60000
      [] ability = "SneakAttack" -> 10000
      [] ability = "HealingWord" -> 30000
      [] ability = "MagicMissile" -> 15000
      [] ability = "HuntersMark" -> 45000
      [] ability = "Rage" -> 60000

(***************************************************************************)
(* u32 arithmetic on limbs, for experience                                 *)
(***************************************************************************)
\* The u32 of a number below 2^31
u32_of(n) == <<n % LimbBase, n \div LimbBase>>

\* a >= b
u32_ge(a, b) == a[2] > b[2] \/ (a[2] = b[2] /\ a[1] >= b[1])

\* a + b: the low 32 bits and whether the sum left the u32 range
u32_add(a, b) ==
    LET lo == a[1] + b[1]
        hi == a[2] + b[2] + lo \div LimbBase
    IN  [value |-> <<lo % LimbBase, hi % LimbBase>>, overflow |-> hi >= LimbBase]

\* a * k for a small k: the low 32 bits and whether the product left the range
u32_mul_small(a, k) ==
    LET lo == a[1] * k
        hi == a[2] * k + lo \div LimbBase
    IN  [value |-> <<lo % LimbBase, hi % LimbBase>>, overflow |-> hi >= LimbBase]

\* a / 10
u32_div10(a) ==
    <<((a[2] % 10) * LimbBase + a[1]) \div 10, a[2] \div 10>>

RECURSIVE pow3(_)
pow3(n) == IF n = 0 THEN 1 ELSE 3 * pow3(n - 1)

(***************************************************************************)
(* Experience and levels (game/character.rs, mod progression)              *)
(***************************************************************************)
\* The level that stands for a panic of level_from_xp (an arithmetic overflow
\* with overflow checks on); levels start at 1
Panic == 0

\* 300 * 3_u32.pow(level - 2), with the overflow of the product flagged
xp_for_level(level) ==
    IF level <= 1
    THEN [value |-> U32_ZERO, overflow |-> FALSE]
    ELSE u32_mul_small(u32_of(pow3(level - 2)), 300)

\* The while loop of level_from_xp from a given level on; Panic when a
\* threshold overflows and overflow checks are on
RECURSIVE level_loop(_, _, _)
level_loop(xp, level, checks) ==
    IF level < 20
    THEN LET t == xp_for_level(level + 1)
         IN  IF t.overflow /\ checks THEN Panic
             ELSE IF u32_ge(xp, t.value) THEN level_loop(xp, level + 1, checks)
             ELSE level
    ELSE level

level_from_xp(xp, checks) == level_loop(xp, 1, checks)

\* (gained_xp as f32 * multiplier) as u32; the f32 product is exact on the
\* awards drawn here, for which it equals gained + gained / 10 for a Human
xp_bonus(gained_xp, species) ==
    IF species = "Human"
    THEN u32_add(gained_xp, u32_div10(gained_xp)).value
    ELSE gained_xp

\* add_xp: current_xp + bonus_xp, the wrapped sum and whether it overflowed
add_xp(current_xp, gained_xp, species) ==
    u32_add(current_xp, xp_bonus(gained_xp, species))

(***************************************************************************)
(* Calls of xp_for_level and level_from_xp on their own, in a build with   *)
(* overflow checks (debug) or without (release).                           *)
(***************************************************************************)
\* The levels the calls are made with
XpLevels == 0..21

\* The xp values the calls are made with: 0, the u32 below, at and above
\* each threshold the code computes, and the largest u32
XpInputs ==
    {U32_ZERO, <<LimbBase - 1, LimbBase - 1>>}
        \cup {xp_for_level(n).value : n \in 2..20}
        \cup {u32_add(xp_for_level(n).value, u32_of(1)).value : n \in 2..20}
        \cup {u32_add(xp_for_level(n).value, <<LimbBase - 1, LimbBase - 1>>).value :
                 n \in 2..20}

\* progression::xp_for_level(level)
CallXpForLevel(level) ==
    /\ LET t == xp_for_level(level)
       IN  xp_call' = [fn |-> "xp_for_level", level |-> level, xp |-> U32_ZERO,
                       panic |-> t.overflow /\ overflow_checks,
                       value |-> IF t.overflow /\ overflow_checks
                                 THEN U32_ZERO ELSE t.value]
    /\ UNCHANGED <<serverVars, chunkVars, combatVars, sendVars, spawnVars,
                   joinVars, callVars, inputVars, requestVars, aiVars>>

\* progression::level_from_xp(xp); value is the level returned
CallLevelFromXp(xp) ==
    /\ LET level == level_from_xp(xp, overflow_checks)
       IN  xp_call' = [fn |-> "level_from_xp", level |-> level, xp |-> xp,
                       panic |-> level = Panic, value |-> U32_ZERO]
    /\ UNCHANGED <<serverVars, chunkVars, combatVars, sendVars, spawnVars,
                   joinVars, callVars, inputVars, requestVars, aiVars>>

(***************************************************************************)
(* Combat entities: add_player's bundle and spawn_monster's                *)
(***************************************************************************)
None == -1

Cooldowns_default == [attack |-> None, ability |-> None]

\* The components add_player gives a player that the combat functions read
add_player_components(species, class) ==
    LET character_sheet == build(species, class)
    IN  [kind |-> "player",
         health |-> [current |-> character_sheet.max_hp,
                     max |-> character_sheet.max_hp],
         stats |-> character_sheet.stats,
         character |-> [species |-> character_sheet.species,
                        class |-> character_sheet.class,
                        level |-> character_sheet.level,
                        experience |-> character_sheet.experience],
         armor_class |-> character_sheet.ac,
         attack_speed |-> character_sheet.attack_cooldown_ms,
         cooldowns |-> Cooldowns_default]

MonsterType == {"Ogre"}

\* MonsterTemplate::get, the fields spawn_monster copies
MonsterTemplate_get(monster_type) ==
    CASE monster_type = "Ogre" ->
            [hp |-> 59, ac |-> 11, str |-> 19, int |-> 5, attack_cooldown_ms |-> 1800]
      [] monster_type = "Wolf" ->
            [hp |-> 11, ac |-> 13, str |-> 12, int |-> 3, attack_cooldown_ms |-> 900]
      [] monster_type = "Troll" ->
            [hp |-> 84, ac |-> 15, str |-> 18, int |-> 7, attack_cooldown_ms |-> 800]

\* The components spawn_monster gives a monster: no Character among them
spawn_monster_components(monster_type) ==
    LET template == MonsterTemplate_get(monster_type)
    IN  [kind |-> "monster",
         monster_type |-> monster_type,
         health |-> [current |-> template.hp, max |-> template.hp],
         stats |-> [str |-> template.str, int |-> template.int],
         armor_class |-> template.ac,
         attack_speed |-> template.attack_cooldown_ms,
         cooldowns |-> Cooldowns_default]

has_character(ent) == ent.kind = "player"

(***************************************************************************)
(* Abilities and attacks (game/abilities.rs)                               *)
(***************************************************************************)
\* last_used.elapsed().as_millis() at the time t
elapsed_ms(last_used, t) == t - last_used

\* Mutant: an ability is still on cooldown when exactly the cooldown has elapsed
is_ability_on_cooldown_inclusive(cooldowns, ability, t) ==
    IF cooldowns.ability # None
    THEN elapsed_ms(cooldowns.ability, t) <= cooldown_ms(ability)
    ELSE FALSE

is_ability_on_cooldown(cooldowns, ability, t) ==
    IF cooldowns.ability # None
    THEN elapsed_ms(cooldowns.ability, t) < cooldown_ms(ability)
    ELSE FALSE

\* (health_max as f32 * 0.25) as i32 and (health_max as f32 * 0.30) as i32
heal_amount(ability, health_max) ==
    CASE ability = "SecondWind" -> health_max \div 4
      [] ability = "HealingWord" -> (3 * health_max) \div 10
      [] OTHER -> 0

\* health.current = (health.current + heal_amount).min(health.max)
heal(health, amount) ==
    [health EXCEPT !.current =
        IF health.current + amount < health.max
        THEN health.current + amount ELSE health.max]

\* activate_ability(world, entity, ability) at the time t; an Err leaves the
\* world as it is
activate_ability(w, entity, ability, t) ==
    IF ~has_character(w[entity]) THEN w
    ELSE IF is_ability_on_cooldown(w[entity].cooldowns, ability, t) THEN w
    ELSE [w EXCEPT ![entity] =
            [@ EXCEPT !.health =
                        IF ability \in {"SecondWind", "HealingWord"}
                        THEN heal(@, heal_amount(ability, w[entity].health.max))
                        ELSE @,
                      !.cooldowns.ability = t]]

\* Mutant: an attack is ready whatever the cooldown
is_attack_ready_always(cooldowns, attack_speed, t) == TRUE

is_attack_ready(cooldowns, attack_speed, t) ==
    IF cooldowns.attack # None
    THEN elapsed_ms(cooldowns.attack, t) >= attack_speed
    ELSE TRUE

\* health.current = (health.current - damage).max(0)
apply_damage(health, damage) ==
    [health EXCEPT !.current =
        IF health.current - damage > 0 THEN health.current - damage ELSE 0]

\* perform_attack(world, attacker_entity, target_entity) at the time t; an Err
\* leaves the world as it is
perform_attack(w, attacker_entity, target_entity, t) ==
    IF ~has_character(w[attacker_entity]) THEN w
    ELSE IF ~is_attack_ready(w[attacker_entity].cooldowns,
                             w[attacker_entity].attack_speed, t) THEN w
    ELSE IF ~has_character(w[target_entity]) THEN w
    ELSE LET str_mod == TruncDiv(w[attacker_entity].stats.str - 10, 2)
             attack_roll == 10 + str_mod
             base_damage == (1 + 6) \div 2
             damage == apply_damage_resistance(
                           base_damage + (IF str_mod > 0 THEN str_mod ELSE 0),
                           w[target_entity].character.species)
             hit == IF attack_roll >= w[target_entity].armor_class
                    THEN [w EXCEPT ![target_entity].health = apply_damage(@, damage)]
                    ELSE w
         IN  [hit EXCEPT ![attacker_entity].cooldowns.attack = t]

(***************************************************************************)
(* Progression (game/progression.rs)                                       *)
(***************************************************************************)
\* Mutant: a level-up heals without raising the maximum
apply_level_up_bonuses_current_only(health, old_level, new_level) ==
    [health EXCEPT !.current = @ + 5 * (new_level - old_level)]

\* apply_level_up_bonuses: per level gained, max += 5 and current += 5
apply_level_up_bonuses(health, old_level, new_level) ==
    [current |-> health.current + 5 * (new_level - old_level),
     max |-> health.max + 5 * (new_level - old_level)]

\* award_xp(world, entity, base_xp); an Err or a panic leaves the world as it is
award_xp(w, entity, base_xp, checks) ==
    IF ~has_character(w[entity]) THEN w
    ELSE LET old_level == w[entity].character.level
             sum == add_xp(w[entity].character.experience, base_xp,
                           w[entity].character.species)
             new_xp == sum.value
             new_level == IF sum.overflow /\ checks THEN Panic
                          ELSE level_from_xp(new_xp, checks)
         IN  IF new_level = Panic THEN w
             ELSE [w EXCEPT ![entity] =
                     [@ EXCEPT !.character.experience = new_xp,
                               !.character.level = new_level,
                               !.health = IF new_level > old_level
                                          THEN apply_level_up_bonuses(@, old_level,
                                                                     new_level)
                                          ELSE @]]

(***************************************************************************)
(* The combat functions on their own: a world of players and monsters, a   *)
(* clock, and calls of the three functions.                                *)
(***************************************************************************)
\* (species, class) of the players drawn
CharacterChoices ==
    { <<"Human", "Fighter">>, <<"Dwarf", "Wizard">>, <<"Elf", "Wizard">> }

\* base_xp of the awards drawn: 300 (one level), 700 000 000 (fourteen
\* levels), 1 500 000 000 (past level 16) and 3 600 000 000 (two of them
\* leave the u32 range)
XpAwards ==
    {u32_of(300), u32_of(700000000), u32_of(1500000000),
     u32_mul_small(u32_of(36000000), 100).value}

CombatEntities == 1..Len(combat_world)

CombatInit ==
    /\ combat_world = <<>>
    /\ now = 0
    /\ xp_awards = 0
    /\ overflow_checks \in BOOLEAN

CombatParked ==
    /\ combat_world = <<>>
    /\ now = 0
    /\ xp_awards = 0
    /\ overflow_checks = FALSE

\* GameState::add_player with a species and a class
CombatAddPlayer ==
    /\ Len(combat_world) < MaxCombatants
    /\ \E ch \in CharacterChoices :
          combat_world' = Append(combat_world, add_player_components(ch[1], ch[2]))
    /\ UNCHANGED <<now, xp_awards, overflow_checks>>

\* spawn_monster with a monster type
CombatSpawnMonster ==
    /\ Len(combat_world) < MaxCombatants
    /\ \E mt \in MonsterType :
          combat_world' = Append(combat_world, spawn_monster_components(mt))
    /\ UNCHANGED <<now, xp_awards, overflow_checks>>

PerformAttack ==
    /\ \E a, t \in CombatEntities :
          combat_world' = perform_attack(combat_world, a, t, now)
    /\ UNCHANGED <<now, xp_awards, overflow_checks>>

ActivateAbility ==
    /\ \E e \in CombatEntities : \E ability \in ClassAbility :
          combat_world' = activate_ability(combat_world, e, ability, now)
    /\ UNCHANGED <<now, xp_awards, overflow_checks>>

AwardXp ==
    /\ xp_awards < MaxXpAwards
    /\ \E e \in CombatEntities : \E base_xp \in XpAwards :
          combat_world' = award_xp(combat_world, e, base_xp, overflow_checks)
    /\ xp_awards' = xp_awards + 1
    /\ UNCHANGED <<now, overflow_checks>>

\* Time passes: the longest ability cooldown
AdvanceClock ==
    /\ now < MaxClockSteps * cooldown_ms("Rage")
    /\ now' = now + cooldown_ms("Rage")
    /\ UNCHANGED <<combat_world, xp_awards, overflow_checks>>

(***************************************************************************)
(* Calls of activate_ability and perform_attack with their results          *)
(* (game/abilities.rs).  The clock moves between the instants at which a   *)
(* cooldown of the entities drawn has just not, or has just, elapsed.      *)
(***************************************************************************)
\* The Result of activate_ability(world, entity, ability) at the time t
activate_ability_result(w, entity, ability, t) ==
    IF ~has_character(w[entity]) THEN "Failed to get components"
    ELSE IF is_ability_on_cooldown(w[entity].cooldowns, ability, t)
    THEN "is on cooldown"
    ELSE "Ok"

\* The Result of perform_attack(world, attacker_entity, target_entity) at t
perform_attack_result(w, attacker_entity, target_entity, t) ==
    IF ~has_character(w[attacker_entity]) THEN "Failed to get attacker components"
    ELSE IF ~is_attack_ready(w[attacker_entity].cooldowns,
                             w[attacker_entity].attack_speed, t)
    THEN "Attack is on cooldown"
    ELSE IF ~has_character(w[target_entity]) THEN "Failed to get target components"
    ELSE "Ok"

\* The abilities the calls of the model activate
CallAbilities == {"SecondWind", "SneakAttack"}

\* The instants of the clock: just before and at the end of the attack
\* cooldown of a Fighter (800), and at the end of the cooldown of SneakAttack
\* (10000) when counted from 0 and before it when counted from a later instant
Instants == {0, 799, 800, 10000}

CallActivateAbility(entity, ability) ==
    /\ combat_world' = activate_ability(combat_world, entity, ability, now)
    /\ combat_call' = [fn |-> "activate_ability", entity |-> entity, target |-> 0,
                       ability |-> ability,
                       result |-> activate_ability_result(combat_world, entity,
                                                          ability, now)]
    /\ UNCHANGED now

CallPerformAttack(attacker_entity, target_entity) ==
    /\ combat_world' = perform_attack(combat_world, attacker_entity,
                                      target_entity, now)
    /\ combat_call' = [fn |-> "perform_attack", entity |-> attacker_entity,
                       target |-> target_entity, ability |-> "none",
                       result |-> perform_attack_result(combat_world,
                                      attacker_entity, target_entity, now)]
    /\ UNCHANGED now

\* Time passes to a later instant
CallClock ==
    /\ \E t \in Instants : t > now /\ now' = t
    /\ UNCHANGED <<combat_world, combat_call>>

(***************************************************************************)
(* Spawn points, monsters and loot (game/spawning.rs, game/loot.rs).       *)
(* Times are Instants in ms; an Option is None or the value, an            *)
(* Option<Entity> is NoEntity or the entity.                               *)
(***************************************************************************)
\* SpawnPointManager::add_spawn_point: the list with the new record pushed
add_spawn_point(sps, monster_type, pos, is_boss) ==
    Append(sps,
        [id |-> Len(sps),
         monster_type |-> monster_type,
         pos |-> pos,
         is_boss |-> is_boss,
         respawn_cooldown_seconds |->
             IF is_boss THEN BOSS_RESPAWN_HOURS * 3600 ELSE REGULAR_RESPAWN_SECONDS,
         last_spawn_time |-> None,
         spawned_entity |-> NoEntity])

\* The components spawn_monster builds: the combat components, a position, a
\* velocity and AIController::default()
spawn_monster(monster_type, pos) ==
    [pos |-> pos, vel |-> <<0, 0>>,
     ai |-> [state |-> "Idle", target |-> NoEntity, chase_timer |-> 0]]
        @@ spawn_monster_components(monster_type)

\* The components of the item entities spawn_loot spawns for an Ogre at pos
\* when `rolled` of its drops are rolled: the drops (the first of the table
\* stands for each) and the guaranteed copper
spawn_loot(pos, rolled) ==
    [i \in 1..(rolled + 1) |->
        [pos |-> pos, kind |-> "item",
         item_id |-> IF i <= rolled THEN "greatclub" ELSE "copper"]]

\* world.spawn of each of a list of component bundles, in order
RECURSIVE spawn_each(_, _)
spawn_each(st, bundles) ==
    IF bundles = <<>> THEN st
    ELSE LET e == AllocEntity(st.ent_meta, st.ent_pending)
         IN  spawn_each([world |-> Put(st.world, e, Head(bundles)),
                         ent_meta |-> MetaAfterAlloc(st.ent_meta, st.ent_pending),
                         ent_pending |-> PendingAfterAlloc(st.ent_pending)],
                        Tail(bundles))

\* world.query_one::<&AIController>(entity) finds a monster that is not Dead
monster_alive(w, entity) ==
    /\ entity \in DOMAIN w
    /\ "ai" \in DOMAIN w[entity]
    /\ w[entity].ai.state # "Dead"

\* Mutant: the cooldown must be exceeded, not just reached
should_spawn_strict(sp, t) ==
    IF sp.last_spawn_time # None
    THEN (t - sp.last_spawn_time) \div 1000 > sp.respawn_cooldown_seconds
    ELSE TRUE

\* now.duration_since(last_spawn).as_secs() >= respawn_cooldown_seconds
should_spawn(sp, t) ==
    IF sp.last_spawn_time # None
    THEN (t - sp.last_spawn_time) \div 1000 >= sp.respawn_cooldown_seconds
    ELSE TRUE

\* SpawnPointManager::update at the time t: the body of the loop for the
\* spawn points from index i on; st holds the list and the world
RECURSIVE manager_update(_, _, _)
manager_update(st, i, t) ==
    IF i > Len(st.spawn_points) THEN st
    ELSE LET sp == st.spawn_points[i]
             checked == IF sp.spawned_entity # NoEntity
                           /\ sp.spawned_entity \notin DOMAIN st.world
                        THEN [sp EXCEPT !.spawned_entity = NoEntity]
                        ELSE sp
             entity == AllocEntity(st.ent_meta, st.ent_pending)
             spawned == spawn_each([world |-> st.world, ent_meta |-> st.ent_meta,
                                    ent_pending |-> st.ent_pending],
                                   << spawn_monster(sp.monster_type, sp.pos) >>)
         IN  IF sp.spawned_entity # NoEntity /\ monster_alive(st.world, sp.spawned_entity)
             THEN manager_update(st, i + 1, t)
             ELSE IF should_spawn(checked, t)
             THEN manager_update(
                      [spawn_points |->
                           [st.spawn_points EXCEPT ![i] =
                               [checked EXCEPT !.spawned_entity = entity,
                                               !.last_spawn_time = t]],
                       world |-> spawned.world,
                       ent_meta |-> spawned.ent_meta,
                       ent_pending |-> spawned.ent_pending],
                      i + 1, t)
             ELSE manager_update([st EXCEPT !.spawn_points[i] = checked], i + 1, t)

(***************************************************************************)
(* handle_player_join with the message as it arrives                      *)
(* (network/messages.rs): the conversions of species and class, then      *)
(* get_next_spawn_point and add_player with the character they name.      *)
(***************************************************************************)
\* The receive task reads a PlayerJoin from the socket and calls
\* handle_player_join with it
ReceivePlayerJoin(c, species_value, class_value) ==
    /\ conn[c] = "open"
    /\ join_msg' = [join_msg EXCEPT ![c] = [species |-> species_value,
                                            character_class |-> class_value]]
    /\ conn' = [conn EXCEPT ![c] = "join_recv"]
    /\ UNCHANGED <<chunkVars, combatVars, sendVars, spawnVars, callVars, inputVars,
                   requestVars,
                   aiVars, xpVars>>
    /\ UNCHANGED <<map, next_client_id, clients, clients_readers, clients_writer,
                   state_lock, join_entity, outbox, tick_pc>>
    /\ UNCHANGED gameVars

\* handle_player_join up to the end of its game_state.write() block: the two
\* conversions, then get_next_spawn_point and add_player
HandlePlayerJoin(c) ==
    /\ conn[c] = "join_recv"
    /\ LET species == species_from_wire(join_msg[c].species)
           class == class_from_wire(join_msg[c].character_class)
       IN  IF species = Rejected \/ class = Rejected
           THEN /\ conn' = [conn EXCEPT ![c] = "open"]
                /\ UNCHANGED <<join_entity, outbox>>
                /\ UNCHANGED gameVars
           ELSE /\ join_state_write
                /\ LET sp == get_next_spawn_point(map, next_spawn_index)
                       e == AllocEntity(ent_meta, ent_pending)
                   IN  /\ next_spawn_index' = sp.next
                       /\ world' = Put(world, e, PlayerBundle(c, sp.pos)
                                               @@ add_player_components(species, class))
                       /\ ent_meta' = MetaAfterAlloc(ent_meta, ent_pending)
                       /\ ent_pending' = PendingAfterAlloc(ent_pending)
                       /\ players' = Put(players, c, PlayerState_new(e))
                       /\ delta_tracker' = add_player_tracker(delta_tracker, e)
                       /\ join_entity' = [join_entity EXCEPT ![c] = e]
                /\ conn' = [conn EXCEPT ![c] = "join_clients"]
                /\ UNCHANGED <<outbox, tick_count, delta_sequence, changes>>
    /\ UNCHANGED otherVars
    /\ UNCHANGED <<map, next_client_id, clients, clients_readers, clients_writer,
                   state_lock, tick_pc>>

(***************************************************************************)
(* Monsters and items put on the map of the server: spawn_monster and      *)
(* spawn_loot called on the world of the game state, at the first spawn    *)
(* point of the map, at exactly the vision range from it, and one pixel    *)
(* farther.                                                                *)
(***************************************************************************)
NearPositions ==
    { map.spawn_points[1],
      << map.spawn_points[1][1] + Px(VISION_RANGE_PIXELS), map.spawn_points[1][2] >>,
      << map.spawn_points[1][1] + Px(VISION_RANGE_PIXELS + 1), map.spawn_points[1][2] >> }

\* spawn_monster(&mut state.world, Ogre, x, y, false)
SpawnMonsterAt(pos) ==
    /\ state_lock = "free"
    /\ SpawnCount < MaxSnapshotEntities
    /\ LET st == spawn_each([world |-> world, ent_meta |-> ent_meta,
                             ent_pending |-> ent_pending],
                            << spawn_monster("Ogre", pos) >>)
       IN  /\ world' = st.world
           /\ ent_meta' = st.ent_meta
           /\ ent_pending' = st.ent_pending
    /\ UNCHANGED otherVars
    /\ UNCHANGED <<map, next_client_id, clients, clients_readers, clients_writer,
                   state_lock, conn, join_entity, outbox, tick_pc, players,
                   tick_count, delta_tracker, delta_sequence, next_spawn_index,
                   changes>>

\* spawn_loot(&mut state.world, Ogre, x, y) when none of the drops is rolled:
\* the copper
SpawnLootAt(pos) ==
    /\ state_lock = "free"
    /\ SpawnCount < MaxSnapshotEntities
    /\ LET st == spawn_each([world |-> world, ent_meta |-> ent_meta,
                             ent_pending |-> ent_pending],
                            spawn_loot(pos, 0))
       IN  /\ world' = st.world
           /\ ent_meta' = st.ent_meta
           /\ ent_pending' = st.ent_pending
    /\ UNCHANGED otherVars
    /\ UNCHANGED <<map, next_client_id, clients, clients_readers, clients_writer,
                   state_lock, conn, join_entity, outbox, tick_pc, players,
                   tick_count, delta_tracker, delta_sequence, next_spawn_index,
                   changes>>

(***************************************************************************)
(* The spawn manager on its own: a manager, a world and its delta tracker, *)
(* a clock, and calls of the functions of game/spawning.rs and             *)
(* game/loot.rs; the tracker is updated as in step 8 of the tick.          *)
(***************************************************************************)
\* SpawnPointManager::new; no monster has died
SpawnInit ==
    /\ spawn_points = <<>>
    /\ death_time = <<>>
    /\ manager_updates = 0

\* Where the spawn points are put: 100 px apart on one row
SpawnPointPos(id) == <<Px(100 * (id + 1)), Px(100)>>

\* The monsters of the world
Monsters == {e \in DOMAIN world : "monster_type" \in DOMAIN world[e]}

\* The spawn points whose current entity is e
PointsOf(e) == {i \in 1..Len(spawn_points) : spawn_points[i].spawned_entity = e}

\* manager.add_spawn_point(monster_type, x, y, is_boss)
AddSpawnPoint ==
    /\ Len(spawn_points) < MaxSpawnPoints
    /\ \E mt \in MonsterType : \E is_boss \in BOOLEAN :
          spawn_points' = add_spawn_point(spawn_points, mt,
                                          SpawnPointPos(Len(spawn_points)), is_boss)
    /\ death_time' = Append(death_time, None)
    /\ UNCHANGED <<world, ent_meta, ent_pending, delta_tracker, changes, now>>
    /\ UNCHANGED manager_updates
    /\ UNCHANGED nonSpawnVars

\* manager.update(&mut world)
ManagerUpdate ==
    /\ SpawnCount + Len(spawn_points) <= MaxSpawnEntities
    /\ LET st == manager_update([spawn_points |-> spawn_points, world |-> world,
                                 ent_meta |-> ent_meta, ent_pending |-> ent_pending],
                                1, now)
       IN  /\ spawn_points' = st.spawn_points
           /\ world' = st.world
           /\ ent_meta' = st.ent_meta
           /\ ent_pending' = st.ent_pending
    /\ UNCHANGED <<death_time, delta_tracker, changes, now>>
    /\ manager_updates' = (manager_updates + 1) % 2
    /\ UNCHANGED nonSpawnVars

\* A monster dies: its AIController goes to Dead (no function of the
\* repository does this; the entity stays in the world)
MonsterDies ==
    /\ \E e \in Monsters :
          /\ world[e].ai.state # "Dead"
          /\ world' = [world EXCEPT ![e].ai.state = "Dead"]
          /\ death_time' = [i \in 1..Len(death_time) |->
                               IF i \in PointsOf(e) THEN now ELSE death_time[i]]
    /\ UNCHANGED <<spawn_points, ent_meta, ent_pending, delta_tracker, changes, now>>
    /\ UNCHANGED manager_updates
    /\ UNCHANGED nonSpawnVars

\* despawn_monster(&mut world, entity)
DespawnMonster ==
    /\ \E e \in Monsters :
          /\ world' = Drop(world, e)
          /\ ent_meta' = MetaAfterFree(ent_meta, e)
          /\ ent_pending' = Append(ent_pending, e.id)
          /\ death_time' = [i \in 1..Len(death_time) |->
                               IF i \in PointsOf(e) /\ world[e].ai.state # "Dead"
                               THEN now ELSE death_time[i]]
    /\ UNCHANGED <<spawn_points, delta_tracker, changes, now>>
    /\ UNCHANGED manager_updates
    /\ UNCHANGED nonSpawnVars

\* spawn_loot(&mut world, monster_type, x, y) at a dead monster, with the
\* number of drops rolled drawn from 0 and 1
SpawnLoot ==
    /\ \E e \in Monsters : \E rolled \in 0..1 :
          /\ world[e].ai.state = "Dead"
          /\ SpawnCount + rolled + 1 <= MaxSpawnEntities
          /\ LET st == spawn_each([world |-> world, ent_meta |-> ent_meta,
                                   ent_pending |-> ent_pending],
                                  spawn_loot(world[e].pos, rolled))
             IN  /\ world' = st.world
                 /\ ent_meta' = st.ent_meta
                 /\ ent_pending' = st.ent_pending
    /\ UNCHANGED <<spawn_points, death_time, delta_tracker, changes, now>>
    /\ UNCHANGED manager_updates
    /\ UNCHANGED nonSpawnVars

\* state.delta_tracker.update(&state.world), step 8 of the tick
TrackerUpdate ==
    /\ changes' = tracker_changes(delta_tracker, world)
    /\ delta_tracker' = tracker_after_update(delta_tracker, world)
    /\ UNCHANGED <<spawn_points, death_time, world, ent_meta, ent_pending, now>>
    /\ UNCHANGED manager_updates
    /\ UNCHANGED nonSpawnVars

\* Time passes: 100 s
SpawnClock ==
    /\ now < MaxSpawnClockSteps * 100 * 1000
    /\ now' = now + 100 * 1000
    /\ UNCHANGED <<spawn_points, death_time, world, ent_meta, ent_pending,
                   delta_tracker, changes>>
    /\ UNCHANGED manager_updates
    /\ UNCHANGED nonSpawnVars

(***************************************************************************)
(* Monster AI (game/ai.rs) on the world of the server: monsters are put on *)
(* the map with spawn_monster, lose hit points, die, and the AI functions  *)
(* are called on the world.  Nothing in the tick calls these functions.    *)
(***************************************************************************)
\* The variables the calls of the AI functions leave alone
nonAiVars == <<map, next_client_id, clients, clients_readers, clients_writer,
               state_lock, conn, join_entity, outbox, ent_meta, ent_pending,
               players, tick_count, delta_tracker, delta_sequence,
               next_spawn_index, tick_pc, changes, chunkVars, combatVars,
               sendVars, spawnVars, joinVars, callVars, inputVars, requestVars,
               xpVars>>

\* The monster types of these runs: a pack creature and one that is none,
\* whose hit points divide by four
AiMonsterTypes == {"Wolf", "Troll"}

\* Where the monsters are put: at the first spawn point of the map, at
\* exactly CALL_RANGE from it, and one pixel farther
AiPositions ==
    { map.spawn_points[1],
      << map.spawn_points[1][1] + Px(CALL_RANGE), map.spawn_points[1][2] >>,
      << map.spawn_points[1][1] + Px(CALL_RANGE + 1), map.spawn_points[1][2] >> }

\* matches!(monster_type, GiantRat | Goblin | Wolf | OrcWarrior)
is_pack_creature(monster_type) ==
    monster_type \in {"GiantRat", "Goblin", "Wolf", "OrcWarrior"}

\* health.current as f32 / health.max as f32 < FLEE_HP_THRESHOLD (0.25), for
\* the values an f32 holds exactly; x / 0.0 is NaN, +inf or -inf
should_flee(health) ==
    IF health.max > 0 THEN 4 * health.current < health.max
    ELSE IF health.max < 0 THEN 4 * health.current > health.max
    ELSE health.current < 0

\* The entities the query (&Position, &Monster) of call_for_help yields
has_position_and_monster(ent) == {"pos", "monster_type"} \subseteq DOMAIN ent

\* distance <= CALL_RANGE between two positions
in_call_range(p, q) ==
    (p[1] - q[1]) * (p[1] - q[1]) + (p[2] - q[2]) * (p[2] - q[2])
        <= Px(CALL_RANGE) * Px(CALL_RANGE)

\* call_for_help(world, entity, attacker)
call_for_help(w, entity, attacker) ==
    IF entity \notin DOMAIN w \/ ~has_position_and_monster(w[entity]) THEN w
    ELSE IF ~is_pack_creature(w[entity].monster_type) THEN w
    ELSE LET allies_to_alert ==
                 {ally_entity \in DOMAIN w :
                     /\ has_position_and_monster(w[ally_entity])
                     /\ ally_entity # entity
                     /\ w[ally_entity].monster_type = w[entity].monster_type
                     /\ in_call_range(w[ally_entity].pos, w[entity].pos)}
         IN  [e \in DOMAIN w |->
                 IF e \in allies_to_alert /\ "ai" \in DOMAIN w[e]
                 THEN [w[e] EXCEPT !.ai.state = "Chase",
                                   !.ai.target = attacker,
                                   !.ai.chase_timer = 0]
                 ELSE w[e]]

\* update_monster_ai(world, delta_time): the entities with an AIController, a
\* Health and a Position are collected, and the loop over them skips the
\* Dead and does nothing for the others
update_monster_ai(w) ==
    [e \in DOMAIN w |->
        IF {"ai", "health", "pos"} \subseteq DOMAIN w[e]
        THEN IF w[e].ai.state = "Dead" THEN w[e] ELSE w[e]
        ELSE w[e]]

\* The players of the world
PlayerEntities == {e \in DOMAIN world : "connection_id" \in DOMAIN world[e]}

\* spawn_monster(&mut state.world, monster_type, x, y, false)
SpawnAiMonster(monster_type, pos) ==
    /\ state_lock = "free"
    /\ SpawnCount < MaxAiEntities
    /\ LET st == spawn_each([world |-> world, ent_meta |-> ent_meta,
                             ent_pending |-> ent_pending],
                            << spawn_monster(monster_type, pos) >>)
       IN  /\ world' = st.world
           /\ ent_meta' = st.ent_meta
           /\ ent_pending' = st.ent_pending
    /\ UNCHANGED otherVars
    /\ UNCHANGED <<map, next_client_id, clients, clients_readers, clients_writer,
                   state_lock, conn, join_entity, outbox, tick_pc, players,
                   tick_count, delta_tracker, delta_sequence, next_spawn_index,
                   changes>>

\* A monster at full health loses hit points, down to a quarter of its
\* maximum (rounded down) or one less (perform_attack writes the health of a
\* target this way, but only of a target with a Character)
MonsterHurt ==
    /\ state_lock = "free"
    /\ \E e \in Monsters : \E below \in 0..1 :
          /\ world[e].health.current = world[e].health.max
          /\ world' = [world EXCEPT ![e].health =
                          apply_damage(@, @.max - (@.max \div 4) + below)]
    /\ UNCHANGED ai_call
    /\ UNCHANGED nonAiVars

\* call_for_help(&mut state.world, entity, attacker) for an entity of the
\* world attacked by a player
CallForHelp(entity, attacker) ==
    /\ state_lock = "free"
    /\ ai_call.n < MaxAiCalls
    /\ entity \in DOMAIN world
    /\ attacker \in PlayerEntities
    /\ world' = call_for_help(world, entity, attacker)
    /\ ai_call' = [n |-> ai_call.n + 1, fn |-> "call_for_help",
                   entity |-> entity, attacker |-> attacker]
    /\ UNCHANGED nonAiVars

\* update_monster_ai(&mut state.world, delta_time)
UpdateMonsterAi ==
    /\ state_lock = "free"
    /\ ai_call.n < MaxAiCalls
    /\ world' = update_monster_ai(world)
    /\ ai_call' = [n |-> ai_call.n + 1, fn |-> "update_monster_ai",
                   entity |-> NoEntity, attacker |-> NoEntity]
    /\ UNCHANGED nonAiVars

\* The server after construction on the overworld map
Init == ServerInit(OverworldMap, U32_ZERO) /\ ChunkParked /\ CombatParked /\ SpawnInit

Spec == Init /\ [][Next]_vars

\* The server on a generated map
InitGenerated ==
    ServerInit(GeneratedMap, U32_ZERO) /\ ChunkParked /\ CombatParked /\ SpawnInit

SpecGenerated == InitGenerated /\ [][Next]_vars

\* The server on a map with spawn points just out of each other's sight
InitBorder ==
    ServerInit(BorderMap, U32_ZERO) /\ ChunkParked /\ CombatParked /\ SpawnInit

SpecBorder == InitBorder /\ [][Next]_vars

\* The same server after 2^32 - 2 ticks without a connection: every variable
\* is as after construction except the two counters, and the u32 wrap of the
\* delta sequence is two ticks away
InitWrap ==
    ServerInit(OverworldMap, U32_MAX_LESS_ONE) /\ ChunkParked /\ CombatParked /\ SpawnInit

SpecWrap == InitWrap /\ [][Next]_vars

\* The server after construction on a small map file without spawn points
InitSmallMap ==
    ServerInit(SmallMap, U32_ZERO) /\ ChunkParked /\ CombatParked /\ SpawnInit

SpecSmallMap == InitSmallMap /\ [][Next]_vars

\* The server with the send tasks of its connections, for runs of at most
\* MaxSendJoins joins
NextSend ==
    \/ Next /\ SpawnCount' <= MaxSendJoins
    \/ \E c \in ConnIds : SendTask(c)

SpecSend == Init /\ [][NextSend]_vars

\* The server under the scheduling of the tokio runtime: a task that can take
\* its next step is eventually polled, so the tick loop and a handler or a
\* cleanup that waits for a lock go on once the lock stays free.  What the
\* clients do (connect, close, send a message) is under no obligation.
\* The second phase of the tick is named by its guard and its move of tick_pc,
\* which only TickChunks makes.
Fairness ==
    /\ WF_vars(TickBegin)
    /\ WF_tick_pc(tick_pc = "chunks" /\ clients_read /\ tick_pc' = "broadcast")
    /\ WF_vars(TickBroadcast)
    /\ \A c \in ConnIds : WF_vars(RemovePlayer(c))
    /\ \A c \in ConnIds : WF_vars(JoinClientsRead(c))
    /\ \A c \in ConnIds : WF_vars(JoinSnapshot(c))

SpecLive == Init /\ [][Next]_vars /\ Fairness

\* The chunk functions applied to a player moved about a map
InitChunks == ServerInit(SmallMap, U32_ZERO) /\ ChunkInit /\ CombatParked /\ SpawnInit

NextChunks ==
    \/ MovePlayer /\ UNCHANGED nonChunkVars
    \/ UpdatePlayerChunks /\ UNCHANGED nonChunkVars

SpecChunks == InitChunks /\ [][NextChunks]_vars

\* The combat functions applied to a world of players and monsters
InitCombat == ServerInit(SmallMap, U32_ZERO) /\ ChunkParked /\ CombatInit /\ SpawnInit

NextCombat ==
    \/ CombatAddPlayer /\ UNCHANGED nonCombatVars
    \/ CombatSpawnMonster /\ UNCHANGED nonCombatVars
    \/ PerformAttack /\ UNCHANGED nonCombatVars
    \/ ActivateAbility /\ UNCHANGED nonCombatVars
    \/ AwardXp /\ UNCHANGED nonCombatVars
    \/ AdvanceClock /\ UNCHANGED nonCombatVars

SpecCombat == InitCombat /\ [][NextCombat]_vars

\* The calls of the ability and attack functions on a world of up to
\* MaxCombatants players and monsters
InitCalls ==
    /\ ServerInit(SmallMap, U32_ZERO)
    /\ ChunkParked
    /\ CombatParked
    /\ SpawnInit

NextCalls ==
    \/ CombatAddPlayer /\ UNCHANGED nonCombatVars
    \/ CombatSpawnMonster /\ UNCHANGED nonCombatVars
    \/ \E entity \in CombatEntities : \E ability \in CallAbilities :
           CallActivateAbility(entity, ability) /\ UNCHANGED nonCallVars
    \/ \E attacker_entity, target_entity \in CombatEntities :
           CallPerformAttack(attacker_entity, target_entity) /\ UNCHANGED nonCallVars
    \/ CallClock /\ UNCHANGED nonCallVars

SpecCalls == InitCalls /\ [][NextCalls]_vars

\* perform_attack as a function of the attacker's STR and the target's AC:
\* two Human Fighters, the first with the STR drawn and the second with the
\* AC drawn, and attacks between them
AttackerStr == 1..20

TargetAc == 5..16

InitAttackRoll ==
    /\ ServerInit(SmallMap, U32_ZERO)
    /\ ChunkParked
    /\ SpawnInit
    /\ now = 0
    /\ xp_awards = 0
    /\ overflow_checks = FALSE
    /\ \E str \in AttackerStr : \E ac \in TargetAc :
          combat_world =
              << [add_player_components("Human", "Fighter") EXCEPT !.stats.str = str],
                 [add_player_components("Human", "Fighter") EXCEPT !.armor_class = ac] >>

NextAttackRoll ==
    \/ \E attacker_entity, target_entity \in CombatEntities :
           CallPerformAttack(attacker_entity, target_entity) /\ UNCHANGED nonCallVars
    \/ CallClock /\ UNCHANGED nonCallVars

SpecAttackRoll == InitAttackRoll /\ [][NextAttackRoll]_vars

\* The server with its PlayerInput messages logged
NextInput ==
    \/ /\ \/ Connect
          \/ \E c \in ConnIds : Disconnect(c)
          \/ \E c \in ConnIds : RemovePlayer(c)
          \/ \E c \in ConnIds : PlayerJoin(c)
          \/ \E c \in ConnIds : JoinClientsRead(c)
          \/ \E c \in ConnIds : JoinSnapshot(c)
          \/ TickBegin
          \/ TickChunks
          \/ TickBroadcast
       /\ SpawnCount' <= MaxInputJoins
    \/ \E c \in ConnIds : \E mv \in Movements : ReceivePlayerInput(c, mv)

SpecInput == Init /\ [][NextInput]_vars

\* The server with RequestChunks messages
NextRequest ==
    \/ Next /\ SpawnCount' <= MaxRequestJoins
    \/ \E c \in ConnIds : \E request \in RequestInputs : RequestChunksMsg(c, request)

SpecRequest == Init /\ [][NextRequest]_vars

\* The server with joins of a Human Fighter or a Gnome Barbarian, on the map
\* with three spawn points or on the map file without any
JoinMaps == {OverworldMap, SmallMap}

JoinCharacters == {<<"Human", "Fighter">>, <<"Gnome", "Barbarian">>}

InitCharacterJoin ==
    /\ \E m \in JoinMaps : ServerInit(m, U32_ZERO)
    /\ ChunkParked /\ CombatParked /\ SpawnInit

NextCharacterJoin ==
    \/ Connect /\ next_client_id' <= MaxCharacterConns + 1
    \/ \E c \in ConnIds : Disconnect(c)
    \/ \E c \in ConnIds : RemovePlayer(c)
    \/ \E c \in ConnIds : \E ch \in JoinCharacters :
           /\ SpawnCount < MaxCharacterJoins
           /\ ReceivePlayerJoin(c, ch[1], ch[2])
    \/ \E c \in ConnIds : HandlePlayerJoin(c)
    \/ \E c \in ConnIds : JoinClientsRead(c)
    \/ \E c \in ConnIds : JoinSnapshot(c)
    \/ TickBegin
    \/ TickChunks
    \/ TickBroadcast

SpecCharacterJoin == InitCharacterJoin /\ [][NextCharacterJoin]_vars

\* The experience functions on their own
InitXp == ServerInit(SmallMap, U32_ZERO) /\ ChunkParked /\ CombatInit /\ SpawnInit

NextXp ==
    \/ \E level \in XpLevels : CallXpForLevel(level)
    \/ \E xp \in XpInputs : CallLevelFromXp(xp)

SpecXp == InitXp /\ [][NextXp]_vars

\* The server with monsters on its map and calls of the AI functions
NextAi ==
    \/ Connect /\ next_client_id' <= MaxAiConns + 1
    \/ \E c \in ConnIds : Disconnect(c)
    \/ \E c \in ConnIds : RemovePlayer(c)
    \/ \E c \in ConnIds : PlayerJoin(c) /\ SpawnCount < MaxAiEntities
    \/ \E c \in ConnIds : JoinClientsRead(c)
    \/ \E c \in ConnIds : JoinSnapshot(c)
    \/ \E monster_type \in AiMonsterTypes : \E pos \in AiPositions :
           SpawnAiMonster(monster_type, pos)
    \/ MonsterHurt
    \/ MonsterDies /\ state_lock = "free"
    \/ \E entity, attacker \in DOMAIN world : CallForHelp(entity, attacker)
    \/ UpdateMonsterAi

SpecAi == Init /\ [][NextAi]_vars

\* The server with monsters and items on its map
NextSnapshot ==
    \/ Next /\ SpawnCount' <= MaxSnapshotEntities
            /\ next_client_id' <= MaxSnapshotConns + 1
    \/ \E pos \in NearPositions : SpawnMonsterAt(pos)
    \/ \E pos \in NearPositions : SpawnLootAt(pos)

SpecSnapshot == Init /\ [][NextSnapshot]_vars

\* The server with joins that carry their species and class: the receive
\* task reads the message, then the handler converts and admits or drops it
NextJoin ==
    \/ Connect
    \/ \E c \in ConnIds : Disconnect(c)
    \/ \E c \in ConnIds : RemovePlayer(c)
    \/ \E c \in ConnIds : \E species_value \in JoinSpeciesInputs :
           \E class_value \in JoinClassInputs :
               /\ SpawnCount < MaxJoinMsgSpawns
               /\ ReceivePlayerJoin(c, species_value, class_value)
    \/ \E c \in ConnIds : HandlePlayerJoin(c)
    \/ \E c \in ConnIds : JoinClientsRead(c)
    \/ \E c \in ConnIds : JoinSnapshot(c)
    \/ \E c \in ConnIds : \E mv \in Movements : PlayerInputMsg(c, mv)
    \/ TickBegin
    \/ TickChunks
    \/ TickBroadcast

SpecJoin == Init /\ [][NextJoin]_vars

\* The spawn manager, the loot and the delta tracker on a world of their own
InitSpawn == ServerInit(SmallMap, U32_ZERO) /\ ChunkParked /\ CombatParked /\ SpawnInit

NextSpawn ==
    \/ AddSpawnPoint
    \/ ManagerUpdate
    \/ MonsterDies
    \/ DespawnMonster
    \/ SpawnLoot
    \/ TrackerUpdate
    \/ SpawnClock

SpecSpawn == InitSpawn /\ [][NextSpawn]_vars

(***************************************************************************)
(* Properties                                                              *)
(***************************************************************************)
IsDelta(m) == m.type = "GameStateDelta"

IsSnapshot(m) == m.type = "GameStateSnapshot"

Ids(infos) == {i.id : i \in infos}

\* The messages a step appends to the outbox of c
NewMessages(c) == SubSeq(outbox'[c], Len(outbox[c]) + 1, Len(outbox'[c]))

NewDeltas(c) == {m \in Range(NewMessages(c)) : IsDelta(m)}

\* The step of a tick that updates the tracker and the sequence
SequenceStep == tick_pc = "chunks" /\ tick_pc' = "broadcast"

\* The step of a tick that broadcasts the deltas
BroadcastStep == tick_pc = "broadcast" /\ tick_pc' = "idle"

\* a precedes b in u32 serial order: 0 < (b - a) mod 2^32 < 2^31
SerialLess(a, b) ==
    LET d == wrapping_sub32(b, a)
    IN  d # U32_ZERO /\ 2 * d[2] < LimbBase

\* A client that has a player entity with a position
HasPlayer(c) == c \in DOMAIN players /\ players[c].entity \in DOMAIN world

PlayerPos(c) == world[players[c].entity].pos

\* The squared distance of two positions against 640 px, from the numbers
Within640(p, q) ==
    (p[1] - q[1]) * (p[1] - q[1]) + (p[2] - q[2]) * (p[2] - q[2]) <= 1920 * 1920

\* C1: the delta sequence advances by exactly one modulo 2^32 in every tick
\* and in no other step, every delta broadcast carries the sequence of its
\* tick, and the sequence numbers of the deltas in any one client's queue are
\* strictly increasing modulo 2^32 in queue order.
C1_SequenceAdvances ==
    [][ /\ SequenceStep => wrapping_sub32(delta_sequence', delta_sequence) = <<1, 0>>
        /\ ~SequenceStep => delta_sequence' = delta_sequence
        /\ \A c \in ConnIds : \A m \in NewDeltas(c) : m.sequence = delta_sequence
        /\ \A c \in ConnIds : \A i, j \in 1..Len(outbox'[c]) :
              (i < j /\ IsDelta(outbox'[c][i]) /\ IsDelta(outbox'[c][j]))
                 => SerialLess(outbox'[c][i].sequence, outbox'[c][j].sequence)
      ]_vars

\* C1 witness: a client holds a delta numbered 2^32 - 1 followed by one numbered 0.
C1_Witness ==
    \E c \in ConnIds : \E i, j \in 1..Len(outbox[c]) :
        /\ i < j
        /\ IsDelta(outbox[c][i]) /\ IsDelta(outbox[c][j])
        /\ outbox[c][i].sequence = <<LimbBase - 1, LimbBase - 1>>
        /\ outbox[c][j].sequence = U32_ZERO

\* C2: in the change set of every tick no entity is both updated and spawned.
C2_UpdatedSpawnedDisjoint == changes.updated \cap changes.spawned = {}

\* C2 witness: a tick whose change set has an updated and a spawned entity.
C2_Witness ==
    /\ tick_pc = "broadcast"
    /\ changes.updated # {}
    /\ changes.spawned # {}

\* C3: in every tick, the delta of a client with a player lists an entity as
\* updated (spawned) exactly when the entity is in the updated (spawned) set of
\* the tick and within 640 px of the client's player; every id listed belongs
\* to such an entity.
C3_VisionFilter ==
    [][ BroadcastStep =>
          \A c \in clients : HasPlayer(c) =>
            LET upd == UNION {Ids(m.entities_updated) : m \in NewDeltas(c)}
                spw == UNION {Ids(m.entities_spawned) : m \in NewDeltas(c)}
                Near(e) == Within640(world[e].pos, PlayerPos(c))
            IN  /\ Cardinality(NewDeltas(c)) <= 1
                /\ upd = {WireId(e) : e \in {x \in DOMAIN world :
                                               x \in changes.updated /\ Near(x)}}
                /\ spw = {WireId(e) : e \in {x \in DOMAIN world :
                                               x \in changes.spawned /\ Near(x)}}
      ]_vars

\* C3 witness: two players spawned 700 px apart; one has moved and was sent its
\* own update, and the tick's delta to the other (if any) does not list it.
C3_Witness ==
    \E c, d \in clients :
        /\ HasPlayer(c) /\ HasPlayer(d)
        /\ PlayerPos(c) = <<Px(1020), Px(3196)>>
        /\ PlayerPos(d)[1] = Px(1720)
        /\ \E m \in Range(outbox[d]) :
              /\ IsDelta(m)
              /\ WireId(players[d].entity) \in Ids(m.entities_updated)
              /\ \A n \in Range(outbox[c]) :
                    (IsDelta(n) /\ n.sequence = m.sequence)
                       => WireId(players[d].entity) \notin Ids(n.entities_updated)

\* C4: in every tick whose change set has despawned ids, every connected
\* client with a player is sent exactly one delta and it lists all of them.
C4_DespawnedUnfiltered ==
    [][ (BroadcastStep /\ changes.despawned # {}) =>
          \A c \in clients : HasPlayer(c) =>
            /\ Len(NewMessages(c)) = 1
            /\ IsDelta(NewMessages(c)[1])
            /\ NewMessages(c)[1].entities_despawned = changes.despawned
      ]_vars

\* Whether message m names entity id i
Mentions(m, i) ==
    \/ IsDelta(m) /\ i \in Ids(m.entities_updated) \cup Ids(m.entities_spawned)
    \/ IsSnapshot(m) /\ i \in Ids(m.entities)

\* C4 witness: the third entity (index 2, spawned 700 px from the first spawn
\* point) was despawned, and the client whose player stands on the first spawn
\* point was sent its id as despawned without ever having been sent the entity.
C4_Witness ==
    \E c \in clients :
        /\ HasPlayer(c)
        /\ PlayerPos(c) = <<Px(1020), Px(3196)>>
        /\ Len(ent_meta) = 3 /\ ent_meta[3] = 2
        /\ \E i \in 1..Len(outbox[c]) :
              /\ IsDelta(outbox[c][i])
              /\ 2 \in outbox[c][i].entities_despawned
              /\ \A j \in 1..i : ~Mentions(outbox[c][j], 2)

\* The needed set of the chunk runs' player, from the numbers: the 3x3 grid
\* around (floor(x/32) div 32, floor(y/32) div 32) inside the map's chunk grid
NeededByDefinition ==
    LET cx == (chunk_position[1] \div 96) \div 32
        cy == (chunk_position[2] \div 96) \div 32
    IN  {p \in {<<cx + dx, cy + dy>> : dx \in {-1, 0, 1}, dy \in {-1, 0, 1}} :
            /\ 0 <= p[1] /\ p[1] < (chunk_map.width + 31) \div 32
            /\ 0 <= p[2] /\ p[2] < (chunk_map.height + 31) \div 32}

NoDuplicates(q) == Cardinality(Range(q)) = Len(q)

\* C5: a call of update_player_chunks with loaded set L and needed set N
\* returns to_load = N \ L and to_unload = L \ N, each without duplicates and
\* the two disjoint, and leaves N as the loaded set; a call that follows a
\* call without a move in between returns two empty lists and leaves the
\* loaded set as it is.
C5_ChunkDiff ==
    [][ chunk_pc' = "updated" =>
          /\ Range(chunk_update'.to_load) = NeededByDefinition \ chunk_loaded
          /\ Range(chunk_update'.to_unload) = chunk_loaded \ NeededByDefinition
          /\ NoDuplicates(chunk_update'.to_load)
          /\ NoDuplicates(chunk_update'.to_unload)
          /\ Range(chunk_update'.to_load) \cap Range(chunk_update'.to_unload) = {}
          /\ chunk_loaded' = NeededByDefinition
          /\ chunk_pc = "updated" =>
                /\ chunk_update'.to_load = <<>>
                /\ chunk_update'.to_unload = <<>>
                /\ chunk_loaded' = chunk_loaded
      ]_vars

\* C5 witness: a call after a move across chunks returned chunks to load and
\* chunks to unload.
C5_Witness ==
    /\ chunk_pc = "updated"
    /\ chunk_update.to_load # <<>>
    /\ chunk_update.to_unload # <<>>

\* C6: for a position inside the map, get_chunks_for_position returns exactly
\* the coordinates of the 3x3 grid around the player's chunk that lie inside
\* the map's chunk grid; each is a key of the chunk index, none is repeated
\* and there are at most 9.
C6_NeededChunks ==
    chunk_pc = "updated" =>
        /\ Range(chunk_needed) = NeededByDefinition
        /\ \A i \in 1..Len(chunk_needed) :
              get_chunk(chunk_map, chunk_needed[i][1], chunk_needed[i][2])
        /\ NoDuplicates(chunk_needed)
        /\ Len(chunk_needed) <= 9

\* C6 witness: a position on the edge of a 100x100 map, whose grid is clipped
\* to 6 chunks.
C6_Witness ==
    /\ chunk_pc = "updated"
    /\ chunk_map.width = 100
    /\ Len(chunk_needed) = 6

\* C7: at most one entity carries a Player component with a given connection id.
C7_OnePlayerPerConnection ==
    \A e1, e2 \in DOMAIN world :
        world[e1].connection_id = world[e2].connection_id => e1 = e2

\* C8: every position lies within [0, W*32] x [0, H*32] of the loaded map.
C8_PositionInsideMap ==
    \A e \in DOMAIN world :
        /\ world[e].pos[1] >= 0 /\ world[e].pos[1] <= Px(map.width * 32)
        /\ world[e].pos[2] >= 0 /\ world[e].pos[2] <= Px(map.height * 32)

\* C9: after any calls of perform_attack, activate_ability and award_xp on
\* entities made by add_player and spawn_monster, every entity's Health has
\* 0 <= current <= max.
C9_HealthInRange ==
    \A e \in CombatEntities :
        /\ 0 <= combat_world[e].health.current
        /\ combat_world[e].health.current <= combat_world[e].health.max

\* C9 witness: a player that was hit, has used an ability and has levelled up
\* stands below its maximum.
C9_Witness ==
    \E e, a \in CombatEntities :
        /\ has_character(combat_world[e])
        /\ combat_world[e].character.level > 1
        /\ combat_world[e].cooldowns.ability # None
        /\ has_character(combat_world[a])
        /\ combat_world[a].cooldowns.attack # None
        /\ 0 < combat_world[e].health.current
        /\ combat_world[e].health.current < combat_world[e].health.max

\* C10: from the start of a tick's input phase to the end of its broadcast no
\* step other than the tick's own changes the game state or reads it into a
\* snapshot.
C10_TickExclusive ==
    [][ (tick_pc # "idle" /\ tick_pc' = tick_pc) =>
            (UNCHANGED gameVars /\ UNCHANGED outbox) ]_vars

\* C10 witness: a tick is between its phases while a join handler that has
\* spawned its player waits for the game state to build the snapshot.
C10_Witness ==
    /\ tick_pc = "broadcast"
    /\ state_lock = "tick"
    /\ \E c \in ConnIds : conn[c] = "join_snapshot"

\* a is an initial segment of b
IsPrefix(a, b) == Len(a) <= Len(b) /\ SubSeq(b, 1, Len(a)) = a

\* A message the tick loop sent
SentByTick(m) == "tick" \in DOMAIN m

\* a <= b on tick counts (u64 limbs)
TickLe(a, b) ==
    \/ a = b
    \/ \E i \in 1..Len(a) : a[i] < b[i] /\ \A j \in (i + 1)..Len(a) : a[j] = b[j]

\* No message of a tick stands behind a message of a later tick
InTickOrder(q) ==
    \A i, j \in 1..Len(q) :
        (i < j /\ SentByTick(q[i]) /\ SentByTick(q[j])) => TickLe(q[i].tick, q[j].tick)

\* C11: every step leaves what was on a client's queue in place and adds only
\* at its end, the messages of a tick stand on the queue before those of any
\* later tick, and what the send task has written to the socket is at every
\* moment an initial segment of the queue, extended only at its end.
C11_TickOrder ==
    [][ \A c \in ConnIds :
          /\ IsPrefix(outbox[c], outbox'[c])
          /\ InTickOrder(outbox'[c])
          /\ IsPrefix(socket[c], socket'[c])
          /\ IsPrefix(socket'[c], outbox'[c])
      ]_vars

\* C11 witness: a send task has written a ChunksLoaded and a GameStateDelta of
\* one tick and then a message of the next tick.
C11_Witness ==
    \E c \in ConnIds : \E i, j, k \in 1..Len(socket[c]) :
        /\ i < j /\ j < k
        /\ SentByTick(socket[c][i]) /\ SentByTick(socket[c][j]) /\ SentByTick(socket[c][k])
        /\ socket[c][i].type = "ChunksLoaded"
        /\ IsDelta(socket[c][j])
        /\ socket[c][i].tick = socket[c][j].tick
        /\ socket[c][k].tick # socket[c][j].tick

\* C12: once the connection of a joined client has closed, the client is
\* eventually out of the client map and out of the player directory.
C12_LeaveCompletes ==
    \A c \in ConnIds :
        (conn[c] = "cleanup" /\ c \in DOMAIN players)
            ~> (c \notin clients /\ c \notin DOMAIN players)

\* C13: every entity a step adds to the world is in the delta tracker's
\* spawned set after the step.
C13_SpawnsTracked ==
    [][ \A e \in DOMAIN world' \ DOMAIN world : e \in delta_tracker'.newly_spawned ]_vars

\* C14: the id of every entity a step removes from the world is in the delta
\* tracker's despawned set after the step.
C14_DespawnsTracked ==
    [][ \A e \in DOMAIN world \ DOMAIN world' :
            WireId(e) \in delta_tracker'.despawned ]_vars

\* C16: a spawn point with the cooldown of 300 s whose monster has died is
\* given a new entity only 300 s or more after that death.
C16_RespawnAfterCooldown ==
    [][ \A i \in 1..Len(spawn_points) :
          ( /\ spawn_points[i].respawn_cooldown_seconds = 300
            /\ death_time[i] # None
            /\ spawn_points'[i].spawned_entity # spawn_points[i].spawned_entity
            /\ spawn_points'[i].spawned_entity # NoEntity )
          => now - death_time[i] >= 300 * 1000
      ]_vars

\* C17: no entity is the spawned entity of two spawn points.
C17_OnePointPerEntity ==
    \A i, j \in 1..Len(spawn_points) :
        (i # j /\ spawn_points[i].spawned_entity # NoEntity)
            => spawn_points[i].spawned_entity # spawn_points[j].spawned_entity

\* C17 witness: two spawn points have monsters in the world, the monster of
\* the first in an index that hecs handed out a second time (index 1,
\* generation 2) and the monster of the second in index 2.
C17_Witness ==
    /\ Len(spawn_points) = 2
    /\ spawn_points[1].spawned_entity \in DOMAIN world
    /\ spawn_points[2].spawned_entity \in DOMAIN world
    /\ spawn_points[1].spawned_entity.id = 1
    /\ spawn_points[1].spawned_entity.gen = 2
    /\ spawn_points[2].spawned_entity.id = 2


\* The GameStateDelta messages queued for any client so far
DeltasSent ==
    {m \in UNION {Range(outbox[c]) : c \in ConnIds} : m.type = "GameStateDelta"}

\* C15: in a single delta no despawned wire id is also the wire id of an
\* entity listed under entities_spawned or entities_updated, even when a
\* player leaves and another joins between the same two ticks.
C15_NoIdReuseInDelta ==
    \A m \in DeltasSent :
        m.entities_despawned \cap
            {info.id : info \in m.entities_spawned \cup m.entities_updated} = {}


\* C18: MAX_PLAYERS is an admission cap: the player directory never holds
\* more than max_players players.
C18_AdmissionCap == Cardinality(DOMAIN players) <= max_players


\* C19: each client's outbound queue is bounded: however slowly the writer
\* task drains it, the number of pending messages stays within a fixed
\* capacity. The channel is created without a capacity, so the bound is
\* stated for a capacity of three messages (a snapshot, one ChunksLoaded and
\* one delta); any other capacity fails in the same way after more ticks.
C19_QueueBounded == \A c \in ConnIds : Len(pending(c)) <= 3


\* C20: a PlayerJoin whose species or class is not one of the enumerated
\* values is dropped with the game state unchanged: the step that handles
\* it spawns no entity, creates no player-directory entry, leaves the
\* spawned set and the round-robin spawn index as they are, and the handler
\* goes back to reading the socket without sending a snapshot.
C20_InvalidJoinDropped ==
    [][ \A c \in ConnIds :
          ( /\ conn[c] = "join_recv"
            /\ conn'[c] # "join_recv"
            /\ \/ join_msg[c].species \notin Species
               \/ join_msg[c].character_class \notin CharacterClass )
          => /\ world' = world
             /\ ent_meta' = ent_meta
             /\ players' = players
             /\ delta_tracker' = delta_tracker
             /\ next_spawn_index' = next_spawn_index
             /\ outbox' = outbox
             /\ conn'[c] = "open" ]_vars

\* C20 witness: with a player of another connection on the map, a join with
\* an unlisted species has been handled: its connection reads the socket
\* again and has no player, and no snapshot was queued for it.
C20_Witness ==
    \E c \in ConnIds :
        /\ join_msg[c].species \notin Species \cup {"none"}
        /\ conn[c] = "open"
        /\ c \notin DOMAIN players
        /\ outbox[c] = <<>>
        /\ \E d \in DOMAIN players : d # c


\* A step in which a combat function was called on the world as it is: the
\* call is the one combat_call' records
CombatCallStep ==
    /\ now' = now
    /\ Len(combat_world') = Len(combat_world)
    /\ <<combat_world, combat_call>>' # <<combat_world, combat_call>>

\* C21: activate_ability fails with the on-cooldown error exactly when the
\* entity has used an ability before and less than the cooldown of the
\* ability has elapsed since then, and the failed call leaves the world (the
\* health and the cooldown timestamps) as it is; a call on an entity with
\* the components, never used or with the cooldown elapsed, succeeds and
\* sets the last-ability timestamp to now.
C21_AbilityCooldown ==
    [][ (CombatCallStep /\ combat_call'.fn = "activate_ability") =>
          LET entity == combat_call'.entity
              last_used == combat_world[entity].cooldowns.ability
              used_recently ==
                  /\ last_used # None
                  /\ now - last_used < cooldown_ms(combat_call'.ability)
          IN  /\ (combat_call'.result = "is on cooldown") <=> used_recently
              /\ used_recently => combat_world' = combat_world
              /\ ("character" \in DOMAIN combat_world[entity] /\ ~used_recently)
                     => /\ combat_call'.result = "Ok"
                        /\ combat_world'[entity].cooldowns.ability = now ]_vars

\* C21 witness: a player that used an ability at 800 ms and attacked at
\* 10000 ms then called SneakAttack, still at 10000 ms, and got the
\* on-cooldown error (9200 ms of the 10000 ms have elapsed).
C21_Witness ==
    /\ now = 10000
    /\ combat_call.fn = "activate_ability"
    /\ combat_call.ability = "SneakAttack"
    /\ combat_call.result = "is on cooldown"
    /\ combat_world[combat_call.entity].cooldowns.ability = 800
    /\ combat_world[combat_call.entity].cooldowns.attack = 10000


\* C22: perform_attack has no side effects when it fails: when the attack
\* cooldown of the attacker has not elapsed, or the attacker or the target
\* lacks a required component, the call returns an error and the world (the
\* target's health, the attacker's last-attack timestamp) is unchanged; an
\* attacker that has never attacked is ready.
C22_FailedAttackNoEffect ==
    [][ (CombatCallStep /\ combat_call'.fn = "perform_attack") =>
          LET attacker == combat_world[combat_call'.entity]
              target == combat_world[combat_call'.target]
              last_attack == attacker.cooldowns.attack
              not_ready == /\ last_attack # None
                           /\ now - last_attack < attacker.attack_speed
              lacks == \/ "character" \notin DOMAIN attacker
                       \/ "character" \notin DOMAIN target
          IN  /\ (not_ready \/ lacks) => combat_call'.result # "Ok"
              /\ combat_call'.result # "Ok" => combat_world' = combat_world
              /\ (last_attack = None /\ ~lacks)
                     => /\ combat_call'.result = "Ok"
                        /\ combat_world'[combat_call'.entity].cooldowns.attack = now
        ]_vars

\* C22 witness: a player that attacked at 0 ms and hit, and used an ability
\* at 799 ms, then attacked again, still at 799 ms, and got the cooldown
\* error; its last-attack timestamp is still 0.
C22_Witness ==
    /\ now = 799
    /\ combat_call.fn = "perform_attack"
    /\ combat_call.result = "Attack is on cooldown"
    /\ combat_world[combat_call.entity].cooldowns.attack = 0
    /\ combat_world[combat_call.entity].cooldowns.ability = 799
    /\ combat_world[combat_call.target].health.current
           < combat_world[combat_call.target].health.max


\* C23: for every attacker STR in 1..20 and every target AC, a ready attack
\* on a target that has health left reduces the target's health if and only
\* if 10 + floor((STR - 10) / 2) >= AC, the floor rounding toward negative
\* infinity.
C23_HitIffFloorRoll ==
    [][ ( /\ CombatCallStep
          /\ combat_call'.fn = "perform_attack"
          /\ combat_call'.result = "Ok"
          /\ combat_world[combat_call'.target].health.current > 0 ) =>
          LET attacker == combat_world[combat_call'.entity]
              target == combat_world[combat_call'.target]
              attack_roll == 10 + ((attacker.stats.str - 10) \div 2)
          IN  (combat_world'[combat_call'.target].health.current
                   < target.health.current)
              <=> (attack_roll >= target.armor_class) ]_vars


\* The velocity the spec gives an axis-aligned movement vector: zero for the
\* zero vector, else MOVEMENT_SPEED along the axis of the input
ExpectedVelocity(movement) ==
    << IF movement[1] > 0 THEN MOVEMENT_SPEED
       ELSE IF movement[1] < 0 THEN -MOVEMENT_SPEED ELSE 0,
       IF movement[2] > 0 THEN MOVEMENT_SPEED
       ELSE IF movement[2] < 0 THEN -MOVEMENT_SPEED ELSE 0 >>

\* The step in which a tick processes the inputs
TickInputsStep == tick_pc = "idle" /\ tick_pc' = "chunks"

\* The inputs of the log of c that were handled for the entity e
InputsFor(c, e) ==
    LET for_e(entry) == entry.entity = e
    IN  SelectSeq(input_log[c], for_e)

\* C24, as stated: at each tick the velocity of a player is computed from the
\* most recent PlayerInput received on its connection before the tick.
C24_LastReceivedInput ==
    [][ TickInputsStep =>
          \A c \in DOMAIN players :
              (players[c].entity \in DOMAIN world /\ input_log[c] # <<>>)
                  => world'[players[c].entity].vel =
                         ExpectedVelocity(input_log[c][Len(input_log[c])].movement)
      ]_vars

\* C24, amended: at each tick the velocity of a player is computed from the
\* most recent PlayerInput handled on its connection since the player was
\* added by its last PlayerJoin, the inputs it overwrote having no effect;
\* it is zero when that input has a zero movement vector or when there is
\* none.
C24_LastInputSinceJoin ==
    [][ TickInputsStep =>
          \A c \in DOMAIN players :
              players[c].entity \in DOMAIN world
                  => LET mine == InputsFor(c, players[c].entity)
                     IN  world'[players[c].entity].vel =
                             IF mine = <<>> THEN <<0, 0>>
                             ELSE ExpectedVelocity(mine[Len(mine)].movement)
      ]_vars

\* C24 witness: a tick has just processed the inputs of a player that sent
\* "down" and then "right" since it joined; its velocity is to the right.
C24_Witness ==
    \E c \in DOMAIN players :
        /\ tick_pc = "chunks"
        /\ players[c].entity \in DOMAIN world
        /\ InputsFor(c, players[c].entity) =
               << [movement |-> <<0, 10>>, entity |-> players[c].entity],
                  [movement |-> <<5, 0>>, entity |-> players[c].entity] >>
        /\ world[players[c].entity].vel = <<MOVEMENT_SPEED, 0>>


\* The requested coordinates that are chunks of the map, in request order
RequestedThatExist(request) ==
    LET exists(p) == p \in chunk_keys(map)
    IN  SelectSeq(request.chunk_coords, exists)

\* C25, as stated: every RequestChunks message is answered with one
\* ChunksLoaded message that holds exactly the requested coordinates that
\* exist in the chunk index, and handling it leaves the game state unchanged.
C25_EveryRequestAnswered ==
    [][ \A c \in ConnIds :
          request_log'[c] # request_log[c] =>
              LET request == request_log'[c][Len(request_log'[c])]
              IN  /\ outbox'[c] =
                         Append(outbox[c], [type |-> "ChunksLoaded",
                                            chunks |-> RequestedThatExist(request)])
                  /\ gameVars' = gameVars ]_vars

\* C25, amended: a RequestChunks message that carries a coordinate vector is
\* answered with one ChunksLoaded message that holds exactly the requested
\* coordinates that exist in the chunk index, in request order; one without
\* a vector gets no answer.  Either way the game state, the loaded-chunk set
\* of the requesting player included, and the queues of the other
\* connections are unchanged.
C25_RequestWithCoordsAnswered ==
    [][ \A c \in ConnIds :
          request_log'[c] # request_log[c] =>
              LET request == request_log'[c][Len(request_log'[c])]
              IN  /\ request.has_coords =>
                         outbox'[c] =
                             Append(outbox[c], [type |-> "ChunksLoaded",
                                                chunks |-> RequestedThatExist(request)])
                  /\ ~request.has_coords => outbox'[c] = outbox[c]
                  /\ \A d \in ConnIds \ {c} : outbox'[d] = outbox[d]
                  /\ gameVars' = gameVars ]_vars

\* C25 witness: a player with loaded chunks asked for a chunk past each edge
\* and the last chunk of the map, and the last message queued for it is a
\* ChunksLoaded with that one chunk.
C25_Witness ==
    \E c \in DOMAIN players :
        /\ players[c].loaded_chunks # {}
        /\ request_log[c] # <<>>
        /\ Len(request_log[c][Len(request_log[c])].chunk_coords) = 3
        /\ outbox[c] # <<>>
        /\ outbox[c][Len(outbox[c])] =
               [type |-> "ChunksLoaded",
                chunks |-> << <<map_width_chunks(map) - 1,
                                map_height_chunks(map) - 1>> >>]


\* The step in which the join handler of c builds and sends the snapshot
SnapshotStep(c) == conn[c] = "join_snapshot" /\ conn'[c] = "open" /\ c \in clients

\* The entities of the world within 640 px of the position p
WithinVisionOf(p) ==
    {e \in DOMAIN world :
        (world[e].pos[1] - p[1]) * (world[e].pos[1] - p[1])
            + (world[e].pos[2] - p[2]) * (world[e].pos[2] - p[2])
        <= (3 * VISION_RANGE_PIXELS) * (3 * VISION_RANGE_PIXELS)}

\* C26: the snapshot built for a joining player lists every entity that has a
\* Position within 640 px of the player when the snapshot is built, the
\* player's own entity and the item entities in range included, and no
\* entity farther away.
C26_SnapshotListsAllInRange ==
    [][ \A c \in ConnIds :
          (SnapshotStep(c) /\ join_entity[c] \in DOMAIN world) =>
              {info.id : info \in outbox'[c][Len(outbox'[c])].entities}
                  = {WireId(e) : e \in WithinVisionOf(world[join_entity[c]].pos)}
      ]_vars


\* The step in which handle_player_join admits the Human Fighter of c
HumanFighterJoinStep(c) ==
    /\ conn[c] = "join_recv"
    /\ conn'[c] = "join_clients"
    /\ join_msg[c] = [species |-> "Human", character_class |-> "Fighter"]

\* The entity of the join is new and carries Health 12/12 and STR 13
NewHumanFighter(c) ==
    /\ join_entity'[c] \notin DOMAIN world
    /\ join_entity'[c] \in DOMAIN world'
    /\ world'[join_entity'[c]].health = [current |-> 12, max |-> 12]
    /\ world'[join_entity'[c]].stats.str = 13

\* The spawn point of the join in round-robin order: the joins are the only
\* spawns, so SpawnCount is the number of joins before this one
RoundRobinSpawnPoint == map.spawn_points[(SpawnCount % Len(map.spawn_points)) + 1]

\* The snapshot sent to c names the entity of its join
SnapshotNamesJoinEntity(c) ==
    SnapshotStep(c) =>
        outbox'[c][Len(outbox'[c])].player_entity_id = WireId(join_entity[c])

AiCallStep(fn) == ai_call'.n = ai_call.n + 1 /\ ai_call'.fn = fn

\* The live allies of a monster: the other monsters of its type within 15
\* tiles of it whose AI state is not Dead
LiveAlliesInRange(entity) ==
    {e \in Monsters \ {entity} :
        /\ world[e].monster_type = world[entity].monster_type
        /\ in_call_range(world[e].pos, world[entity].pos)
        /\ world[e].ai.state # "Dead"}

\* C28: a call of call_for_help for an attacked pack creature sets exactly
\* the other live monsters of its type within 480 px to Chase with the
\* attacker as target; the attacked monster, monsters of other types, out of
\* range or Dead are unchanged, and for a monster that is no pack creature
\* nothing changes.
C28_CallForHelpAlertsLiveAllies ==
    [][ AiCallStep("call_for_help") =>
          LET entity == ai_call'.entity
              alerted == IF entity \in Monsters
                            /\ is_pack_creature(world[entity].monster_type)
                         THEN LiveAlliesInRange(entity)
                         ELSE {}
          IN  /\ DOMAIN world' = DOMAIN world
              /\ \A e \in DOMAIN world :
                    IF e \in alerted
                    THEN /\ world'[e].ai.state = "Chase"
                         /\ world'[e].ai.target = ai_call'.attacker
                    ELSE world'[e] = world[e]
      ]_vars

\* C29: in every reachable state the target of every AIController is absent
\* or an entity of the world, also after the targeted player has left.
C29_TargetAbsentOrInWorld ==
    \A e \in DOMAIN world :
        "ai" \in DOMAIN world[e] =>
            \/ world[e].ai.target = NoEntity
            \/ world[e].ai.target \in DOMAIN world

\* C30: after update_monster_ai has run, every monster whose AI state is not
\* Dead and whose hit points are below a quarter of its maximum is in state
\* Flee; should_flee is true exactly below a quarter, false at a quarter.
C30_LowHealthFlees ==
    [][ AiCallStep("update_monster_ai") =>
          \A e \in DOMAIN world' :
              "ai" \in DOMAIN world'[e] =>
                  /\ should_flee(world'[e].health)
                        <=> 4 * world'[e].health.current < world'[e].health.max
                  /\ (world'[e].ai.state # "Dead" /\ should_flee(world'[e].health))
                        => world'[e].ai.state = "Flee"
      ]_vars


\* 300 * 3^(n-2) as a u32 when it is one: 300 for level 2 and three times the
\* value of the level below, never leaving the u32 range
RECURSIVE ExactXpForLevel(_)
ExactXpForLevel(n) ==
    IF n <= 1 THEN [value |-> U32_ZERO, overflow |-> FALSE]
    ELSE IF n = 2 THEN [value |-> u32_of(300), overflow |-> FALSE]
    ELSE LET below == ExactXpForLevel(n - 1)
             t == u32_mul_small(below.value, 3)
         IN  [value |-> t.value, overflow |-> below.overflow \/ t.overflow]

\* The greatest level n <= 20 whose threshold, as the code computes it, is at
\* most xp
GreatestLevel(xp) ==
    CHOOSE n \in 1..20 :
        /\ u32_ge(xp, xp_for_level(n).value)
        /\ \A m \in (n + 1)..20 : ~u32_ge(xp, xp_for_level(m).value)

\* C31: with the 32-bit arithmetic of the code, xp_for_level(1) = 0 and
\* xp_for_level(n) = 300 * 3^(n-2) for n in 2..20, and level_from_xp(xp) is
\* the greatest level n <= 20 with xp_for_level(n) <= xp, for every u32 xp.
C31_XpTable ==
    /\ (xp_call.fn = "xp_for_level" /\ xp_call.level \in 1..20) =>
          /\ ~xp_call.panic
          /\ ~ExactXpForLevel(xp_call.level).overflow
          /\ xp_call.value = ExactXpForLevel(xp_call.level).value
    /\ xp_call.fn = "level_from_xp" =>
          /\ ~xp_call.panic
          /\ xp_call.level = GreatestLevel(xp_call.xp)


\* C32: after any sequence of award_xp calls on a character created by
\* add_player, its level stays in 1..20 and never decreases, and its
\* experience never decreases.
C32_LevelAndXpMonotone ==
    [][ xp_awards' = xp_awards + 1 =>
          \A e \in CombatEntities :
              has_character(combat_world[e]) =>
                  /\ combat_world'[e].character.level \in 1..20
                  /\ combat_world'[e].character.level
                        >= combat_world[e].character.level
                  /\ u32_ge(combat_world'[e].character.experience,
                            combat_world[e].character.experience)
      ]_vars


\* C33: the tick never deadlocks with the connection handlers: every tick
\* that has started completes, and every join handler and every disconnect
\* cleanup that has started completes.
C33_TicksAndHandlersComplete ==
    /\ (tick_pc # "idle") ~> (tick_pc = "idle")
    /\ \A c \in ConnIds :
          (conn[c] \in {"join_clients", "join_snapshot", "cleanup"})
              ~> (conn[c] \in {"open", "closed"})


\* The join handler of c has created the player entity and has not yet sent
\* the snapshot
AwaitingSnapshot(c) == conn[c] \in {"join_clients", "join_snapshot"}

\* C34: between the creation of a client's player entity by PlayerJoin and
\* the enqueueing of its GameStateSnapshot, no GameStateDelta, ChunksLoaded
\* or ChunksUnloaded is enqueued on the queue of that client.
C34_SnapshotFirst ==
    [][ \A c \in ConnIds :
          AwaitingSnapshot(c) =>
              \A m \in Range(NewMessages(c)) :
                  m.type \notin {"GameStateDelta", "ChunksLoaded", "ChunksUnloaded"}
      ]_vars


\* The step of a call of SpawnPointManager::update
ManagerUpdateStep == manager_updates' # manager_updates

\* The record i has no living current entity: none recorded, the entity is
\* no longer in the world, or its AI state is Dead
NoLivingEntity(i) ==
    \/ spawn_points[i].spawned_entity = NoEntity
    \/ spawn_points[i].spawned_entity \notin DOMAIN world
    \/ world[spawn_points[i].spawned_entity].ai.state = "Dead"

\* The record i has never spawned, or its cooldown has elapsed since
\* last_spawn_time
CooledDown(i) ==
    \/ spawn_points[i].last_spawn_time = None
    \/ now - spawn_points[i].last_spawn_time
          >= 1000 * spawn_points[i].respawn_cooldown_seconds

\* The records an update respawns
Respawning == {i \in 1..Len(spawn_points) : NoLivingEntity(i) /\ CooledDown(i)}

\* C35: SpawnPointManager::update creates a monster for a record exactly when
\* the record has no living current entity and has never spawned or its
\* cooldown has elapsed since last_spawn_time; the monster is created at the
\* origin of the record and becomes its current entity; the records whose
\* monster is alive are left unchanged.
C35_UpdateRespawns ==
    [][ ManagerUpdateStep =>
          /\ Len(spawn_points') = Len(spawn_points)
          /\ \A e \in DOMAIN world : e \in DOMAIN world' /\ world'[e] = world[e]
          /\ DOMAIN world' \ DOMAIN world
                = {spawn_points'[i].spawned_entity : i \in Respawning}
          /\ \A i \in Respawning :
                /\ spawn_points'[i].spawned_entity \in DOMAIN world' \ DOMAIN world
                /\ world'[spawn_points'[i].spawned_entity].pos = spawn_points[i].pos
                /\ world'[spawn_points'[i].spawned_entity].monster_type
                      = spawn_points[i].monster_type
                /\ world'[spawn_points'[i].spawned_entity].ai.state = "Idle"
                /\ \A j \in Respawning :
                      j # i => spawn_points'[j].spawned_entity
                                  # spawn_points'[i].spawned_entity
          /\ \A i \in (1..Len(spawn_points)) \ Respawning :
                IF NoLivingEntity(i)
                THEN spawn_points'[i].spawned_entity
                        \in {spawn_points[i].spawned_entity, NoEntity}
                ELSE spawn_points'[i] = spawn_points[i]
      ]_vars

\* The monster of a regular spawn point spawned at time 0 has died, and an
\* update exactly 300 s after the spawn has given the point a new monster at
\* its origin while the dead one is still in the world
C35_Witness ==
    \E i \in 1..Len(spawn_points) :
        /\ spawn_points[i].respawn_cooldown_seconds = 300
        /\ spawn_points[i].last_spawn_time = 300 * 1000
        /\ now = 300 * 1000
        /\ monster_alive(world, spawn_points[i].spawned_entity)
        /\ world[spawn_points[i].spawned_entity].pos = spawn_points[i].pos
        /\ \E e \in Monsters :
              /\ e # spawn_points[i].spawned_entity
              /\ world[e].ai.state = "Dead"
              /\ world[e].pos = spawn_points[i].pos


\* The chunk coordinates a client holds after the messages msgs: those of
\* the ChunksLoaded messages that no later ChunksUnloaded lists
RECURSIVE ToldChunks(_)
ToldChunks(msgs) ==
    IF msgs = <<>> THEN {}
    ELSE LET before == ToldChunks(SubSeq(msgs, 1, Len(msgs) - 1))
             last == msgs[Len(msgs)]
         IN  IF last.type = "ChunksLoaded" THEN before \cup Range(last.chunks)
             ELSE IF last.type = "ChunksUnloaded"
                  THEN before \ Range(last.chunk_coords)
             ELSE before

\* C36: after every tick, for each joined player, the chunk coordinates the
\* tick loop has sent the client in ChunksLoaded and not afterwards in
\* ChunksUnloaded are the player's loaded-chunk set, which is the needed set
\* of the player's position.
C36_ClientChunksMatch ==
    [][ BroadcastStep =>
          \A c \in DOMAIN players' :
              /\ players'[c].loaded_chunks
                    = player_needed_set(map', world', players', c)
              /\ ToldChunks(outbox'[c]) = players'[c].loaded_chunks
      ]_vars

\* The loaded-chunk set alone is the needed set after every tick
C36_LoadedIsNeeded ==
    [][ BroadcastStep =>
          \A c \in DOMAIN players' :
              players'[c].loaded_chunks
                  = player_needed_set(map', world', players', c)
      ]_vars


\* The entity ids a client knows after the messages msgs: those of its
\* snapshots and of the entities_spawned lists, less those listed as
\* despawned afterwards
RECURSIVE DeliveredIds(_)
DeliveredIds(msgs) ==
    IF msgs = <<>> THEN {}
    ELSE LET before == DeliveredIds(SubSeq(msgs, 1, Len(msgs) - 1))
             last == msgs[Len(msgs)]
         IN  IF IsSnapshot(last) THEN before \cup Ids(last.entities)
             ELSE IF IsDelta(last)
                  THEN (before \ last.entities_despawned)
                          \cup Ids(last.entities_spawned)
             ELSE before

\* The ids of the entities_updated list of the k-th message sent to c were
\* delivered to c by then (the entities_spawned list of the same delta counts)
UpdatedWereDelivered(c, k) ==
    IsDelta(outbox[c][k]) =>
        Ids(outbox[c][k].entities_updated)
            \subseteq DeliveredIds(SubSeq(outbox[c], 1, k))

\* C37: every entity id a client receives in an entities_updated list was
\* delivered to that client before, in its snapshot or in an entities_spawned
\* list, and has not been listed as despawned since.
C37_UpdatedWasDelivered ==
    \A c \in ConnIds : \A k \in 1..Len(outbox[c]) : UpdatedWereDelivered(c, k)

\* The same for the deltas that follow the snapshot of the client
C37_UpdatedAfterSnapshot ==
    \A c \in ConnIds : \A k \in 1..Len(outbox[c]) :
        (\E j \in 1..(k - 1) : IsSnapshot(outbox[c][j]))
            => UpdatedWereDelivered(c, k)


\* The deltas among the messages msgs, in the order sent
DeltasOf(msgs) == SelectSeq(msgs, IsDelta)

\* A client whose join has completed and whose connection is open
JoinedClient(c) == c \in DOMAIN players /\ c \in clients /\ conn[c] = "open"

\* C38: a joined client is sent a GameStateDelta in every tick, so the
\* sequence numbers it receives are consecutive modulo 2^32.
C38_DeltaEveryTick ==
    [][ BroadcastStep =>
          \A c \in ConnIds :
              JoinedClient(c) =>
                  /\ \E m \in NewDeltas(c) : m.sequence = delta_sequence
                  /\ LET sent == DeltasOf(outbox'[c])
                     IN  \A k \in 1..(Len(sent) - 1) :
                             sent[k + 1].sequence
                                 = next_delta_sequence(sent[k].sequence)
      ]_vars


\* The entities that carry a Player component with the connection id c
PlayerEntitiesOf(c) ==
    {e \in DOMAIN world :
        "connection_id" \in DOMAIN world[e] /\ world[e].connection_id = c}

\* C39: after the disconnect of a client has been processed (the receive
\* task has run remove_player and ended), the player directory and the client
\* map have no entry for its connection id and no entity of the world carries
\* a Player component with that connection id.
C39_NothingRemains ==
    \A c \in ConnIds :
        conn[c] = "closed" =>
            /\ c \notin DOMAIN players
            /\ c \notin clients
            /\ PlayerEntitiesOf(c) = {}

\* The directory and the client map alone are cleared
C39_MapsCleared ==
    \A c \in ConnIds :
        conn[c] = "closed" => c \notin DOMAIN players /\ c \notin clients


\* The EntityData records a message carries
InfosOf(m) ==
    IF IsSnapshot(m) THEN m.entities
    ELSE IF IsDelta(m) THEN m.entities_spawned \cup m.entities_updated
    ELSE {}

\* The most recent EntityData with the wire id sent in msgs: none when the
\* id was never sent or was listed as despawned afterwards
RECURSIVE LastInfos(_, _)
LastInfos(msgs, id) ==
    IF msgs = <<>> THEN {}
    ELSE LET last == msgs[Len(msgs)]
             here == {i \in InfosOf(last) : i.id = id}
         IN  IF here # {} THEN here
             ELSE IF IsDelta(last) /\ id \in last.entities_despawned THEN {}
             ELSE LastInfos(SubSeq(msgs, 1, Len(msgs) - 1), id)

\* C40: after every tick, for each client and each entity within 640 px of
\* the client's player that the client has been sent, the velocity of the
\* most recent EntityData sent to the client for the entity is the entity's
\* velocity.
C40_SentVelocityCurrent ==
    [][ BroadcastStep =>
          \A c \in DOMAIN players' :
              (c \in clients' /\ players'[c].entity \in DOMAIN world') =>
                  \A e \in DOMAIN world' :
                      (/\ has_entity_info(world'[e])
                       /\ within_vision(world'[e].pos,
                                        world'[players'[c].entity].pos))
                      => \A i \in LastInfos(outbox'[c], WireId(e)) :
                             i.vel = world'[e].vel
      ]_vars

====
